---- MODULE Spec2Model ----
(***************************************************************************)
(* Model of the omnivault-onepassword provider: the path parser, the error  *)
(* normalizer, record conversion, the vault-ID cache and the Provider        *)
(* operations over a 1Password backend whose calls may fail.                 *)
(*                                                                           *)
(* Go strings are modelled as sequences of one-character strings, so that    *)
(* splitting, prefix tests and substring matching are computed as the code   *)
(* computes them.                                                            *)
(***************************************************************************)
EXTENDS Integers, Sequences, FiniteSets, TLC

VARIABLES
    config,      \* Provider.config: the default vault (ID and name)
    closed,      \* Provider.closed
    vaultCache,  \* Provider.vaultCache: name or ID -> vault ID
    items,       \* the backend's items, in the order Items.ListAll yields them
    nextID,      \* number of items the backend has created so far
    last,        \* the last completed call: operation, arguments and results
    batch,       \* the batch call in progress, if any
    mu,          \* Provider.mu: its readers (r), its writer (w), callers of Lock (q)
    vaultMu,     \* Provider.vaultMu, likewise
    goroutine    \* the calls of concurrent goroutines and where each one stands

vars == <<config, closed, vaultCache, items, nextID, last, batch, mu, vaultMu, goroutine>>

(***************************************************************************)
(* String literals of the source.                                            *)
(***************************************************************************)
Empty ==
    <<>>

OpPrefix ==
    <<"o", "p", ":", "/", "/">>

S_password ==
    <<"p", "a", "s", "s", "w", "o", "r", "d">>

S_otpauth ==
    <<"o", "t", "p", "a", "u", "t", "h", ":", "/", "/">>

P_itemNotFound ==
    <<"i", "t", "e", "m", "N", "o", "t", "F", "o", "u", "n", "d">>

P_vaultNotFound ==
    <<"v", "a", "u", "l", "t", "N", "o", "t", "F", "o", "u", "n", "d">>

P_fieldNotFound ==
    <<"f", "i", "e", "l", "d", "N", "o", "t", "F", "o", "u", "n", "d">>

P_noMatchingSections ==
    <<"n", "o", "M", "a", "t", "c", "h", "i", "n", "g", "S", "e", "c", "t", "i", "o", "n", "s">>

P_forbidden ==
    <<"f", "o", "r", "b", "i", "d", "d", "e", "n">>

P_tooManyVaults ==
    <<"t", "o", "o", "M", "a", "n", "y", "V", "a", "u", "l", "t", "s">>

P_tooManyItems ==
    <<"t", "o", "o", "M", "a", "n", "y", "I", "t", "e", "m", "s">>

P_tooManyMatchingFields ==
    <<"t", "o", "o", "M", "a", "n", "y", "M", "a", "t", "c", "h", "i", "n", "g", "F", "i", "e", "l", "d", "s">>

M_vault_required ==
    <<"v", "a", "u", "l", "t", " ", "n", "a", "m", "e", " ", "o", "r", " ", "I", "D", " ", "i", "s", " ", "r", "e", "q", "u", "i", "r", "e", "d">>

M_item_required ==
    <<"i", "t", "e", "m", " ", "n", "a", "m", "e", " ", "o", "r", " ", "I", "D", " ", "i", "s", " ", "r", "e", "q", "u", "i", "r", "e", "d">>

M_vault_not_found ==
    <<"v", "a", "u", "l", "t", " ", "n", "o", "t", " ", "f", "o", "u", "n", "d", ":", " ">>

M_item_not_found ==
    <<"i", "t", "e", "m", " ", "n", "o", "t", " ", "f", "o", "u", "n", "d", ":", " ">>

Lower(c) ==
    CASE c = "A" -> "a"
      [] c = "B" -> "b"
      [] c = "C" -> "c"
      [] c = "D" -> "d"
      [] c = "E" -> "e"
      [] c = "F" -> "f"
      [] c = "G" -> "g"
      [] c = "H" -> "h"
      [] c = "I" -> "i"
      [] c = "J" -> "j"
      [] c = "K" -> "k"
      [] c = "L" -> "l"
      [] c = "M" -> "m"
      [] c = "N" -> "n"
      [] c = "O" -> "o"
      [] c = "P" -> "p"
      [] c = "Q" -> "q"
      [] c = "R" -> "r"
      [] c = "S" -> "s"
      [] c = "T" -> "t"
      [] c = "U" -> "u"
      [] c = "V" -> "v"
      [] c = "W" -> "w"
      [] c = "X" -> "x"
      [] c = "Y" -> "y"
      [] c = "Z" -> "z"
      [] OTHER -> c

(***************************************************************************)
(* The string functions of package strings that the source uses.           *)
(***************************************************************************)
ToLower(s) ==
    [i \in 1..Len(s) |-> Lower(s[i])]

HasPrefix(s, prefix) ==
    /\ Len(s) >= Len(prefix)
    /\ SubSeq(s, 1, Len(prefix)) = prefix

Contains(s, substr) ==
    \E i \in 0..(Len(s) - Len(substr)) : SubSeq(s, i + 1, i + Len(substr)) = substr

TrimPrefix(s, prefix) ==
    IF HasPrefix(s, prefix) THEN SubSeq(s, Len(prefix) + 1, Len(s)) ELSE s

RECURSIVE Split(_, _)
Split(s, c) ==
    IF \A i \in 1..Len(s) : s[i] # c
    THEN <<s>>
    ELSE LET i == CHOOSE k \in 1..Len(s) : s[k] = c /\ \A j \in 1..(k - 1) : s[j] # c
         IN  <<SubSeq(s, 1, i - 1)>> \o Split(SubSeq(s, i + 1, Len(s)), c)

RECURSIVE Join(_, _)
Join(parts, sep) ==
    IF Len(parts) = 0 THEN Empty
    ELSE IF Len(parts) = 1 THEN parts[1]
    ELSE parts[1] \o sep \o Join(Tail(parts), sep)

\* The filter, were it to keep the empty parts.
NonEmptyParts_KeepAll(parts) ==
    parts

\* The filter, were it to keep an empty part that comes first.
NonEmptyParts_KeepLeading(parts) ==
    IF parts # <<>> /\ parts[1] = Empty
    THEN <<Empty>> \o SelectSeq(Tail(parts), LAMBDA p : p # Empty)
    ELSE SelectSeq(parts, LAMBDA p : p # Empty)

\* The loop that drops the empty parts (two slashes in a row).
NonEmptyParts(parts) ==
    SelectSeq(parts, LAMBDA p : p # Empty)

(***************************************************************************)
(* path.go: ParsedPath, ParsePath, parseSecretReference.                   *)
(***************************************************************************)
ErrInvalidPath ==
    <<"i", "n", "v", "a", "l", "i", "d", " ", "p", "a", "t", "h", " ", "f", "o", "r", "m", "a", "t">>

MsgSingle ==
    ErrInvalidPath \o <<":", " ", "s", "i", "n", "g", "l", "e", " ", "c", "o", "m", "p", "o", "n", "e", "n", "t", " ", "p", "a", "t", "h", " ", "r", "e", "q", "u", "i", "r", "e", "s", " ", "d", "e", "f", "a", "u", "l", "t", " ", "v", "a", "u", "l", "t">>

MsgTooMany ==
    ErrInvalidPath \o <<":", " ", "t", "o", "o", " ", "m", "a", "n", "y", " ", "p", "a", "t", "h", " ", "c", "o", "m", "p", "o", "n", "e", "n", "t", "s">>

MsgBadRef ==
    ErrInvalidPath \o <<":", " ", "i", "n", "v", "a", "l", "i", "d", " ", "s", "e", "c", "r", "e", "t", " ", "r", "e", "f", "e", "r", "e", "n", "c", "e", " ", "f", "o", "r", "m", "a", "t">>

ParsedPath(v, i, s, f) ==
    [Vault |-> v, Item |-> i, Section |-> s, Field |-> f]

ParseOk(p) ==
    [ok |-> TRUE, p |-> p, msg |-> Empty]

ParseFail(msg) ==
    [ok |-> FALSE, p |-> ParsedPath(Empty, Empty, Empty, Empty), msg |-> msg]

\* String, were it to join the four components, the empty ones too.
String_KeepEmpty(p) ==
    Join(<<p.Vault, p.Item, p.Section, p.Field>>, <<"/">>)

String(p) ==
    Join(NonEmptyParts(<<p.Vault, p.Item, p.Section, p.Field>>), <<"/">>)

SecretReference(p) ==
    IF p.Field # Empty
    THEN IF p.Section # Empty
         THEN OpPrefix \o Join(<<p.Vault, p.Item, p.Section, p.Field>>, <<"/">>)
         ELSE OpPrefix \o Join(<<p.Vault, p.Item, p.Field>>, <<"/">>)
    ELSE OpPrefix \o Join(<<p.Vault, p.Item>>, <<"/">>)

\* parseSecretReference, were it to keep the query.
parseSecretReference_KeepQuery(ref) ==
    LET parts == NonEmptyParts(Split(TrimPrefix(ref, OpPrefix), "/"))
    IN  CASE Len(parts) = 2 -> ParseOk(ParsedPath(parts[1], parts[2], Empty, Empty))
          [] Len(parts) = 3 -> ParseOk(ParsedPath(parts[1], parts[2], Empty, parts[3]))
          [] Len(parts) = 4 -> ParseOk(ParsedPath(parts[1], parts[2], parts[3], parts[4]))
          [] OTHER -> ParseFail(MsgBadRef)

parseSecretReference(ref) ==
    LET stripped == TrimPrefix(ref, OpPrefix)
        noQuery  == Split(stripped, "?")[1]
        parts    == NonEmptyParts(Split(noQuery, "/"))
    IN  CASE Len(parts) = 2 -> ParseOk(ParsedPath(parts[1], parts[2], Empty, Empty))
          [] Len(parts) = 3 -> ParseOk(ParsedPath(parts[1], parts[2], Empty, parts[3]))
          [] Len(parts) = 4 -> ParseOk(ParsedPath(parts[1], parts[2], parts[3], parts[4]))
          [] OTHER -> ParseFail(MsgBadRef)

\* ParsePath, were it to accept one component without a default vault.
ParsePath_NoDefaultCheck(path, defaultVault) ==
    IF path = Empty THEN ParseFail(ErrInvalidPath)
    ELSE IF HasPrefix(path, OpPrefix) THEN parseSecretReference(path)
    ELSE
      LET parts == NonEmptyParts(Split(path, "/"))
      IN  CASE Len(parts) = 0 -> ParseFail(ErrInvalidPath)
            [] Len(parts) = 1 -> ParseOk(ParsedPath(defaultVault, parts[1], Empty, Empty))
            [] Len(parts) = 2 ->
                 IF defaultVault # Empty
                 THEN ParseOk(ParsedPath(defaultVault, parts[1], Empty, parts[2]))
                 ELSE ParseOk(ParsedPath(parts[1], parts[2], Empty, Empty))
            [] Len(parts) = 3 -> ParseOk(ParsedPath(parts[1], parts[2], Empty, parts[3]))
            [] Len(parts) = 4 -> ParseOk(ParsedPath(parts[1], parts[2], parts[3], parts[4]))
            [] OTHER -> ParseFail(MsgTooMany)

ParsePath(path, defaultVault) ==
    IF path = Empty THEN ParseFail(ErrInvalidPath)
    ELSE IF HasPrefix(path, OpPrefix) THEN parseSecretReference(path)
    ELSE
      LET parts == NonEmptyParts(Split(path, "/"))
      IN  CASE Len(parts) = 0 -> ParseFail(ErrInvalidPath)
            [] Len(parts) = 1 ->
                 IF defaultVault = Empty
                 THEN ParseFail(MsgSingle)
                 ELSE ParseOk(ParsedPath(defaultVault, parts[1], Empty, Empty))
            [] Len(parts) = 2 ->
                 IF defaultVault # Empty
                 THEN ParseOk(ParsedPath(defaultVault, parts[1], Empty, parts[2]))
                 ELSE ParseOk(ParsedPath(parts[1], parts[2], Empty, Empty))
            [] Len(parts) = 3 -> ParseOk(ParsedPath(parts[1], parts[2], Empty, parts[3]))
            [] Len(parts) = 4 -> ParseOk(ParsedPath(parts[1], parts[2], parts[3], parts[4]))
            [] OTHER -> ParseFail(MsgTooMany)


(***************************************************************************)
(* errors.go: mapError, containsAny, isNotFoundError.                      *)
(*                                                                         *)
(* An error value is a record: Kind names the sentinel the error wraps     *)
(* (what errors.Is finds), Cause is the text of a wrapped raw error, Op    *)
(* and Path are the fields of vault.VaultError.  Nil is the nil error.     *)
(***************************************************************************)
Nil ==
    [Op |-> "", Path |-> Empty, Kind |-> "nil", Cause |-> Empty]

\* NewVaultError, were it to leave the path out of the error.
NewVaultError_NoPath(operation, path, kind, cause) ==
    [Op |-> operation, Path |-> Empty, Kind |-> kind, Cause |-> cause]

NewVaultError(operation, path, kind, cause) ==
    [Op |-> operation, Path |-> path, Kind |-> kind, Cause |-> cause]

containsAny(s, substrs) ==
    LET sLower == ToLower(s)
    IN  \E substr \in substrs : Contains(sLower, ToLower(substr))

NotFoundPatterns ==
    {P_itemNotFound,
     P_vaultNotFound,
     P_fieldNotFound,
     P_noMatchingSections,
     <<"i", "t", "e", "m", " ", "n", "o", "t", " ", "f", "o", "u", "n", "d">>,
     <<"v", "a", "u", "l", "t", " ", "n", "o", "t", " ", "f", "o", "u", "n", "d">>}

AccessDeniedPatterns ==
    {<<"u", "n", "a", "u", "t", "h", "o", "r", "i", "z", "e", "d">>,
     P_forbidden,
     <<"a", "c", "c", "e", "s", "s", " ", "d", "e", "n", "i", "e", "d">>,
     <<"A", "c", "c", "e", "s", "s", "D", "e", "n", "i", "e", "d">>,
     <<"i", "n", "v", "a", "l", "i", "d", " ", "s", "e", "r", "v", "i", "c", "e", " ", "a", "c", "c", "o", "u", "n", "t", " ", "t", "o", "k", "e", "n">>,
     <<"a", "u", "t", "h", "e", "n", "t", "i", "c", "a", "t", "i", "o", "n", " ", "f", "a", "i", "l", "e", "d">>}

AmbiguousPatterns ==
    {P_tooManyVaults, P_tooManyItems, P_tooManyMatchingFields}

IsNotFoundPatterns ==
    {<<"i", "t", "e", "m", "n", "o", "t", "f", "o", "u", "n", "d">>,
     <<"v", "a", "u", "l", "t", "n", "o", "t", "f", "o", "u", "n", "d">>,
     <<"f", "i", "e", "l", "d", "n", "o", "t", "f", "o", "u", "n", "d">>,
     <<"n", "o", "t", " ", "f", "o", "u", "n", "d">>}

\* mapError, were it to know the error codes of the backend only, and not
\* the messages "item not found" and "vault not found".
mapError_CodesOnly(operation, path, err) ==
    IF containsAny(err, {P_itemNotFound, P_vaultNotFound, P_fieldNotFound,
                         P_noMatchingSections})
    THEN NewVaultError(operation, path, "ErrSecretNotFound", Empty)
    ELSE IF containsAny(err, AccessDeniedPatterns)
    THEN NewVaultError(operation, path, "ErrAccessDenied", Empty)
    ELSE IF containsAny(err, AmbiguousPatterns)
    THEN NewVaultError(operation, path, "ambiguous", Empty)
    ELSE NewVaultError(operation, path, "raw", err)

\* mapError, were it to test the access-denied patterns first.
mapError_AccessFirst(operation, path, err) ==
    IF containsAny(err, AccessDeniedPatterns)
    THEN NewVaultError(operation, path, "ErrAccessDenied", Empty)
    ELSE IF containsAny(err, NotFoundPatterns)
    THEN NewVaultError(operation, path, "ErrSecretNotFound", Empty)
    ELSE IF containsAny(err, AmbiguousPatterns)
    THEN NewVaultError(operation, path, "ambiguous", Empty)
    ELSE NewVaultError(operation, path, "raw", err)

\* err is the text of a non-nil raw error.
mapError(operation, path, err) ==
    IF containsAny(err, NotFoundPatterns)
    THEN NewVaultError(operation, path, "ErrSecretNotFound", Empty)
    ELSE IF containsAny(err, AccessDeniedPatterns)
    THEN NewVaultError(operation, path, "ErrAccessDenied", Empty)
    ELSE IF containsAny(err, AmbiguousPatterns)
    THEN NewVaultError(operation, path, "ambiguous", Empty)
    ELSE NewVaultError(operation, path, "raw", err)

\* isNotFoundError, were it to take every error for not-found.
isNotFoundError_Always(err) ==
    TRUE

\* isNotFoundError, were it to take no error for not-found.
isNotFoundError_Never(err) ==
    FALSE

\* err is the text of a non-nil raw error.
isNotFoundError(err) ==
    containsAny(ToLower(err), IsNotFoundPatterns)


(***************************************************************************)
(* convert.go: itemToSecret, secretToFields, inferFieldType, sanitizeID,   *)
(* tagsToStrings.                                                          *)
(*                                                                         *)
(* A backend field is [ID, Title, Value, FieldType, OTPCode]; OTPCode is   *)
(* the computed one-time code of field.Details, Empty when there is none.  *)
(* A secret is [Value, Fields, Tags]: Fields maps names to values, Tags is *)
(* [isNil, m] because the code tells a nil tag map from an empty one.      *)
(* Go iterates a map in an unspecified order: the operators that range     *)
(* over a map take the order as a parameter, or return every outcome.      *)
(***************************************************************************)
ItemField(id, title, value, type) ==
    [ID |-> id, Title |-> title, Value |-> value, FieldType |-> type, OTPCode |-> Empty]

\* inferFieldType were the rule of the URL names to come first.
inferFieldType_UrlFirst(name, value) ==
    LET nameLower == ToLower(name)
    IN  IF \/ Contains(nameLower, <<"u", "r", "l">>)
           \/ Contains(nameLower, <<"w", "e", "b", "s", "i", "t", "e">>)
           \/ Contains(nameLower, <<"e", "n", "d", "p", "o", "i", "n", "t">>)
        THEN "Url"
        ELSE IF \/ Contains(nameLower, S_password)
                \/ Contains(nameLower, <<"s", "e", "c", "r", "e", "t">>)
                \/ Contains(nameLower, <<"t", "o", "k", "e", "n">>)
                \/ Contains(nameLower, <<"k", "e", "y">>)
                \/ Contains(nameLower, <<"c", "r", "e", "d", "e", "n", "t", "i", "a", "l">>)
        THEN "Concealed"
        ELSE IF \/ Contains(nameLower, <<"p", "h", "o", "n", "e">>)
                \/ Contains(nameLower, <<"m", "o", "b", "i", "l", "e">>)
                \/ Contains(nameLower, <<"t", "e", "l">>)
        THEN "Phone"
        ELSE IF HasPrefix(value, S_otpauth)
        THEN "Totp"
        ELSE "Text"

inferFieldType(name, value) ==
    LET nameLower == ToLower(name)
    IN  IF \/ Contains(nameLower, S_password)
           \/ Contains(nameLower, <<"s", "e", "c", "r", "e", "t">>)
           \/ Contains(nameLower, <<"t", "o", "k", "e", "n">>)
           \/ Contains(nameLower, <<"k", "e", "y">>)
           \/ Contains(nameLower, <<"c", "r", "e", "d", "e", "n", "t", "i", "a", "l">>)
        THEN "Concealed"
        ELSE IF \/ Contains(nameLower, <<"u", "r", "l">>)
                \/ Contains(nameLower, <<"w", "e", "b", "s", "i", "t", "e">>)
                \/ Contains(nameLower, <<"e", "n", "d", "p", "o", "i", "n", "t">>)
        THEN "Url"
        ELSE IF \/ Contains(nameLower, <<"p", "h", "o", "n", "e">>)
                \/ Contains(nameLower, <<"m", "o", "b", "i", "l", "e">>)
                \/ Contains(nameLower, <<"t", "e", "l">>)
        THEN "Phone"
        ELSE IF HasPrefix(value, S_otpauth)
        THEN "Totp"
        ELSE "Text"

\* strings.Trim(s, "_"), were it to trim the leading underscores only.
TrimUnderscores_Leading(s) ==
    LET keep == {i \in 1..Len(s) : s[i] # "_"}
    IN  IF keep = {} THEN Empty
        ELSE SubSeq(s, CHOOSE i \in keep : \A j \in keep : i <= j, Len(s))

TrimUnderscores(s) ==
    LET keep == {i \in 1..Len(s) : s[i] # "_"}
    IN  IF keep = {} THEN Empty
        ELSE LET lo == CHOOSE i \in keep : \A j \in keep : i <= j
                 hi == CHOOSE i \in keep : \A j \in keep : i >= j
             IN  SubSeq(s, lo, hi)

sanitizeID(name) ==
    LET LowerLetters == {"a", "b", "c", "d", "e", "f", "g", "h", "i", "j", "k", "l", "m",
                         "n", "o", "p", "q", "r", "s", "t", "u", "v", "w", "x", "y", "z"}
        Digits    == {"0", "1", "2", "3", "4", "5", "6", "7", "8", "9"}
        lowered   == ToLower(name)
        replaced  == [i \in 1..Len(lowered) |->
                        IF lowered[i] = " " \/ lowered[i] = "-" THEN "_" ELSE lowered[i]]
        result    == SelectSeq(replaced,
                        LAMBDA r : r \in LowerLetters \/ r \in Digits \/ r = "_")
        sanitized == TrimUnderscores(result)
    IN  IF sanitized = Empty THEN <<"f", "i", "e", "l", "d">> ELSE sanitized

\* secretToFields, were it to write secret.Value beside the fields of the map.
secretToFields_WithValue(secret, fieldName, order) ==
    IF fieldName # Empty
    THEN <<ItemField(sanitizeID(fieldName), fieldName, secret.Value, "Concealed")>>
    ELSE LET fields == [i \in 1..Len(order) |->
                          ItemField(sanitizeID(order[i]), order[i], secret.Fields[order[i]],
                                    inferFieldType(order[i], secret.Fields[order[i]]))]
         IN  IF secret.Value # Empty
             THEN Append(fields, ItemField(S_password, S_password, secret.Value, "Concealed"))
             ELSE fields

\* order: the order in which the range over secret.Fields visits its keys.
secretToFields(secret, fieldName, order) ==
    IF fieldName # Empty
    THEN <<ItemField(sanitizeID(fieldName), fieldName, secret.Value, "Concealed")>>
    ELSE LET fields == [i \in 1..Len(order) |->
                          ItemField(sanitizeID(order[i]), order[i], secret.Fields[order[i]],
                                    inferFieldType(order[i], secret.Fields[order[i]]))]
         IN  IF Len(fields) = 0 /\ secret.Value # Empty
             THEN <<ItemField(S_password, S_password, secret.Value, "Concealed")>>
             ELSE fields

\* order: the order in which the range over tags visits its keys.
tagsToStrings(tags, order) ==
    IF Cardinality(DOMAIN tags) = 0 THEN <<>>
    ELSE [i \in 1..Len(order) |->
            IF tags[order[i]] # Empty
            THEN order[i] \o <<":">> \o tags[order[i]]
            ELSE order[i]]

\* Every order in which a range over a map with these keys may visit them.
Orders(keys) ==
    {o \in [1..Cardinality(keys) -> keys] : \A i, j \in DOMAIN o : i # j => o[i] # o[j]}

FieldName(field) ==
    IF field.Title = Empty THEN field.ID ELSE field.Title

FieldValue(field) ==
    IF field.FieldType = "Totp" /\ field.OTPCode # Empty THEN field.OTPCode ELSE field.Value

\* secret.Fields after the loop over item.Fields: a later field of the same
\* name overwrites an earlier one.
FieldsOf(fields) ==
    [n \in {FieldName(fields[i]) : i \in DOMAIN fields} |->
        LET idx == {i \in DOMAIN fields : FieldName(fields[i]) = n}
            hi  == CHOOSE i \in idx : \A j \in idx : i >= j
        IN  FieldValue(fields[hi])]

\* secret.Value after the loop: the value of the last field named "password".
PasswordValue(fields) ==
    LET idx == {i \in DOMAIN fields : ToLower(FieldName(fields[i])) = S_password}
    IN  IF idx = {} THEN Empty
        ELSE FieldValue(fields[CHOOSE i \in idx : \A j \in idx : i >= j])

\* firstConcealedValue after the loop: it is assigned while it is still "".
FirstConcealedValue(fields) ==
    LET idx == {i \in DOMAIN fields :
                  fields[i].FieldType = "Concealed" /\ FieldValue(fields[i]) # Empty}
    IN  IF idx = {} THEN Empty
        ELSE FieldValue(fields[CHOOSE i \in idx : \A j \in idx : i <= j])

\* The values of secret.Value were the first concealed field to come before
\* the password field.
PrimaryValues_ConcealedFirst(fields) ==
    IF FirstConcealedValue(fields) # Empty THEN {FirstConcealedValue(fields)}
    ELSE IF PasswordValue(fields) # Empty THEN {PasswordValue(fields)}
    ELSE LET m        == FieldsOf(fields)
             nonEmpty == {m[n] : n \in DOMAIN m} \ {Empty}
         IN  IF nonEmpty = {} THEN {Empty} ELSE nonEmpty

\* The values secret.Value may end with: the fallback ranges over a map.
PrimaryValues(fields) ==
    IF PasswordValue(fields) # Empty THEN {PasswordValue(fields)}
    ELSE IF FirstConcealedValue(fields) # Empty THEN {FirstConcealedValue(fields)}
    ELSE LET m        == FieldsOf(fields)
             nonEmpty == {m[n] : n \in DOMAIN m} \ {Empty}
         IN  IF nonEmpty = {} THEN {Empty} ELSE nonEmpty

TagKey(tag) ==
    Split(tag, ":")[1]

TagValue(tag) ==
    IF Contains(tag, <<":">>) THEN SubSeq(tag, Len(TagKey(tag)) + 2, Len(tag)) ELSE Empty

TagsOf(tags) ==
    [k \in {TagKey(tags[i]) : i \in DOMAIN tags} |->
        LET idx == {i \in DOMAIN tags : TagKey(tags[i]) = k}
            hi  == CHOOSE i \in idx : \A j \in idx : i >= j
        IN  TagValue(tags[hi])]

\* The secret but for its Value, which is one of PrimaryValues(item.Fields).
itemToSecret(item, path, value) ==
    [Value   |-> value,
     Fields  |-> FieldsOf(item.Fields),
     Path    |-> path,
     Tags    |-> TagsOf(item.Tags),
     VaultID |-> item.VaultID,
     ItemID  |-> item.ID]


(***************************************************************************)
(* Bounds and inputs of the model.                                         *)
(***************************************************************************)
\* The backend creates at most MaxItems items in a run.
MaxItems ==
    2

\* An iterator may fail after it has yielded up to MaxFailAt elements.
MaxFailAt ==
    0

VaultV ==
    <<"V">>

VaultX ==
    <<"X">>

\* The vaults of the account, in the order Vaults.ListAll yields them.  The
\* title of a vault is free text: the second one is titled with the
\* identifier of the first.
Vaults ==
    << [ID |-> <<"v", "1">>, Title |-> VaultV],
       [ID |-> <<"w", "1">>, Title |-> <<"v", "1">>] >>

\* The identifier the backend gives the n-th item it creates.
NewItemID(n) ==
    LET IDChars == <<"1", "2", "3", "4", "5", "6", "7", "8", "9">>
    IN  <<"i", IDChars[n]>>

E_canceled ==
    <<"c", "o", "n", "t", "e", "x", "t", " ", "c", "a", "n", "c", "e", "l", "e", "d">>

\* The texts of the errors the backend calls may return.  Listing the
\* vaults or the items of a vault may fail with an error the code reads as
\* access-denied, as ambiguous, or with one it cannot classify (the context
\* was canceled).  The vaults of the account stay, so no listing reports
\* a vault missing.
ListErrors ==
    {P_forbidden, P_tooManyItems, E_canceled}

\* Items.Get, Items.Create, Items.Put and Secrets.Resolve.
CallErrors ==
    {P_forbidden}

\* Items.Delete may also find the item gone, or fail unclassified.
DeleteErrors ==
    {P_itemNotFound, P_forbidden, E_canceled}

\* The errors of Items.Delete that tell the item is no longer there: some
\* other client of the account removed it first.
GoneErrors ==
    {P_itemNotFound}

RawErrors ==
    ListErrors \cup CallErrors \cup DeleteErrors

(***************************************************************************)
(* The backend (op.Client): what each call returns, and how it may fail.   *)
(* An iterator outcome is OkIter, or a failure with error err of the Next  *)
(* call that follows `at` yielded elements (at = 0: ListAll itself or the  *)
(* first Next fails).                                                     *)
(***************************************************************************)
OkIter ==
    [ok |-> TRUE, at |-> 0, err |-> Empty]

IterOutcomes ==
    {OkIter} \cup [ok : {FALSE}, at : 0..MaxFailAt, err : ListErrors]

\* The iterator fails before it is done.
IterFails(seq, o) ==
    ~o.ok /\ o.at <= Len(seq)

\* The elements the iterator yields before it ends or fails.
Yielded(seq, o) ==
    IF IterFails(seq, o) THEN SubSeq(seq, 1, o.at) ELSE seq

\* Index of the first element whose ID or Title is nameOrID, 0 if none.
FirstMatch(seq, nameOrID) ==
    LET idx == {i \in DOMAIN seq : seq[i].ID = nameOrID \/ seq[i].Title = nameOrID}
    IN  IF idx = {} THEN 0 ELSE CHOOSE i \in idx : \A j \in idx : i <= j

\* Items.ListAll(vaultID): the items of the vault, oldest first.
ItemsIn(its, vaultID) ==
    SelectSeq(its, LAMBDA it : it.VaultID = vaultID)

\* Items.Get(vaultID, itemID), for an item that exists.
ItemByID(its, itemID) ==
    its[CHOOSE i \in DOMAIN its : its[i].ID = itemID]

\* Items.Create(params): a new item with a fresh identifier.
CreateItem(its, n, vaultID, title, fields, tags) ==
    Append(its, [ID |-> NewItemID(n + 1), VaultID |-> vaultID, Title |-> title,
                 Fields |-> fields, Tags |-> tags])

\* Items.Put(item): the stored item of that identifier is replaced.
PutItem(its, item) ==
    [i \in DOMAIN its |-> IF its[i].ID = item.ID THEN item ELSE its[i]]

\* Items.Delete(vaultID, itemID).
\* Items.Delete, were it to delete every item of the vault.
DeleteItem_WholeVault(its, vaultID, itemID) ==
    SelectSeq(its, LAMBDA it : it.VaultID # vaultID)

DeleteItem(its, vaultID, itemID) ==
    SelectSeq(its, LAMBDA it : ~(it.VaultID = vaultID /\ it.ID = itemID))

\* Secrets.Resolve(ref): the value of the one field the reference names.
\* The items of this model have no sections.
SecretsResolve(its, ref) ==
    LET parts == Split(TrimPrefix(ref, OpPrefix), "/")
        vs    == {i \in DOMAIN Vaults :
                    Vaults[i].ID = parts[1] \/ Vaults[i].Title = parts[1]}
        vid   == Vaults[CHOOSE i \in vs : TRUE].ID
        cand  == ItemsIn(its, vid)
        is    == {i \in DOMAIN cand :
                    cand[i].ID = parts[2] \/ cand[i].Title = parts[2]}
        flds  == cand[CHOOSE i \in is : TRUE].Fields
        fs    == {i \in DOMAIN flds :
                    flds[i].ID = parts[Len(parts)] \/ flds[i].Title = parts[Len(parts)]}
    IN  IF vs = {} THEN [value |-> Empty, err |-> P_vaultNotFound]
        ELSE IF Cardinality(vs) > 1 THEN [value |-> Empty, err |-> P_tooManyVaults]
        ELSE IF is = {} THEN [value |-> Empty, err |-> P_itemNotFound]
        ELSE IF Cardinality(is) > 1 THEN [value |-> Empty, err |-> P_tooManyItems]
        ELSE IF Len(parts) = 4 THEN [value |-> Empty, err |-> P_noMatchingSections]
        ELSE IF fs = {} THEN [value |-> Empty, err |-> P_fieldNotFound]
        ELSE IF Cardinality(fs) > 1 THEN [value |-> Empty, err |-> P_tooManyMatchingFields]
        ELSE [value |-> FieldValue(flds[CHOOSE i \in fs : TRUE]), err |-> Empty]


(***************************************************************************)
(* The inputs the callers draw from.                                       *)
(***************************************************************************)
S_user ==
    <<"u", "s", "e", "r">>

\* Config.DefaultVaultID and Config.DefaultVaultName: the provider of this
\* model is configured without a default vault.
Configs ==
    {[DefaultVaultID |-> Empty, DefaultVaultName |-> Empty]}

\* A configuration that names the vault "V" as the default vault.
ConfigDefault ==
    [DefaultVaultID |-> Empty, DefaultVaultName |-> <<"V">>]

Path_Va ==
    <<"V", "/", "a">>

Path_Vauser ==
    <<"V", "/", "a", "/", "u", "s", "e", "r">>

Path_Vapassword ==
    <<"V", "/", "a", "/", "p", "a", "s", "s", "w", "o", "r", "d">>

Path_a ==
    <<"a">>

Path_Xa ==
    <<"X", "/", "a">>

\* The paths the callers pass: one that does not parse (a single segment,
\* no default vault), an item, a field of it, an item of an unknown vault.
Paths ==
    {Path_a, Path_Va, Path_Vapassword, Path_Xa}

\* The item of the unknown vault, written as a secret reference.
Path_opXa ==
    OpPrefix \o Path_Xa

\* The paths a call may be asked about.
AllPaths ==
    Paths \cup {Empty, Path_Vauser, Path_opXa}

NilTags ==
    [isNil |-> TRUE, m |-> <<>>]

\* A login: a user name and a password, with a value of its own, tagged
\* "t:1".
SecretLogin ==
    [Value |-> <<"z">>, Fields |-> (S_user :> <<"u">>) @@ (S_password :> <<"p">>),
     Tags |-> [isNil |-> FALSE, m |-> (<<"t">> :> <<"1">>)]]

\* A login whose password is empty, tagged alike.
SecretNoPassword ==
    [Value |-> Empty, Fields |-> (S_user :> <<"u">>) @@ (S_password :> Empty),
     Tags |-> [isNil |-> FALSE, m |-> (<<"t">> :> <<"1">>)]]

\* A bare value.
SecretValue ==
    [Value |-> <<"z">>, Fields |-> <<>>, Tags |-> NilTags]

Secrets ==
    {SecretLogin, SecretNoPassword, SecretValue}

Prefixes ==
    {Empty, Path_Va}

(***************************************************************************)
(* onepassword.go: the Provider.                                           *)
(*                                                                         *)
(* Each operation is an operator from the current state and its arguments  *)
(* to the set of results it may have, one for each way the backend calls   *)
(* it makes may end.  A result records the returned error err, the         *)
(* returned value out, the state the call leaves (cache, items, nextID),   *)
(* the backend calls it made, in order, and those of them that failed.     *)
(* The provider lock mu makes Set and Delete exclusive and keeps them      *)
(* apart from Get, Exists and List, so one call is one step.               *)
(***************************************************************************)
getDefaultVault ==
    IF config.DefaultVaultID # Empty THEN config.DefaultVaultID ELSE config.DefaultVaultName

\* ParsePath and mapError on the inputs of the model, computed once.
DefaultVaults ==
    {IF c.DefaultVaultID # Empty THEN c.DefaultVaultID ELSE c.DefaultVaultName
        : c \in Configs \cup {ConfigDefault}}

Parsed ==
    [path \in AllPaths, d \in DefaultVaults |-> ParsePath(path, d)]

Names ==
    {Parsed[x].p.Vault : x \in DOMAIN Parsed} \cup {Parsed[x].p.Item : x \in DOMAIN Parsed}

ErrorTexts ==
    RawErrors
        \cup {M_vault_not_found \o n : n \in Names}
        \cup {M_item_not_found \o n : n \in Names}
        \cup {M_vault_required, M_item_required}
        \cup {P_vaultNotFound, P_tooManyVaults, P_itemNotFound, P_tooManyItems,
              P_noMatchingSections, P_fieldNotFound, P_tooManyMatchingFields}

Operations ==
    {"Get", "Set", "Delete", "Exists", "List"}

Mapped ==
    [operation \in Operations, e \in ErrorTexts |-> mapError(operation, Empty, e)]

NotFoundTexts ==
    {e \in ErrorTexts : isNotFoundError(e)}

MapError(operation, path, err) ==
    [Mapped[operation, err] EXCEPT !.Path = path]

\* A backend call that failed; vault names the vault whose items List could
\* not list.
Fault(call) ==
    [call |-> call, vault |-> Empty]

\* cacheVaultID, were it to keep the entries of this vault only.
cacheVaultID_Only(cache, name, id) ==
    [k \in {name, id} |-> id]

cacheVaultID(cache, name, id) ==
    [k \in DOMAIN cache \cup {name, id} |->
        IF k = id THEN id ELSE IF k = name THEN id ELSE cache[k]]

RECURSIVE CacheAll(_, _)
CacheAll(cache, vs) ==
    IF Len(vs) = 0 THEN cache
    ELSE CacheAll(cacheVaultID(cache, vs[1].Title, vs[1].ID), Tail(vs))

\* resolveVaultID when the cache misses and the vault listing ends as o.
\* err is the text of the raw error, Empty for nil.
ScanVaults(nameOrID, o) ==
    LET seen == Yielded(Vaults, o)
        m    == FirstMatch(seen, nameOrID)
    IN  IF m # 0
        THEN [id |-> seen[m].ID, err |-> Empty,
              cache |-> CacheAll(vaultCache, SubSeq(seen, 1, m)),
              calls |-> <<"Vaults.ListAll">>, faults |-> {}]
        ELSE IF IterFails(Vaults, o)
        THEN [id |-> Empty, err |-> o.err, cache |-> CacheAll(vaultCache, seen),
              calls |-> <<"Vaults.ListAll">>, faults |-> {Fault("Vaults.ListAll")}]
        ELSE [id |-> Empty, err |-> M_vault_not_found \o nameOrID,
              cache |-> CacheAll(vaultCache, seen),
              calls |-> <<"Vaults.ListAll">>, faults |-> {}]

\* resolveVaultID, were it not to look in the cache first.
resolveVaultID_NoCache(nameOrID) ==
    IF nameOrID = Empty
    THEN {[id |-> Empty, err |-> M_vault_required, cache |-> vaultCache,
           calls |-> <<>>, faults |-> {}]}
    ELSE {ScanVaults(nameOrID, o) : o \in IterOutcomes}

resolveVaultID(nameOrID) ==
    IF nameOrID = Empty
    THEN {[id |-> Empty, err |-> M_vault_required, cache |-> vaultCache,
           calls |-> <<>>, faults |-> {}]}
    ELSE IF nameOrID \in DOMAIN vaultCache
    THEN {[id |-> vaultCache[nameOrID], err |-> Empty, cache |-> vaultCache,
           calls |-> <<>>, faults |-> {}]}
    ELSE {ScanVaults(nameOrID, o) : o \in IterOutcomes}

\* resolveItemID when the item listing ends as o.
ScanItems(vaultID, nameOrID, o) ==
    LET all  == ItemsIn(items, vaultID)
        seen == Yielded(all, o)
        m    == FirstMatch(seen, nameOrID)
    IN  IF m # 0
        THEN [id |-> seen[m].ID, err |-> Empty,
              calls |-> <<"Items.ListAll">>, faults |-> {}]
        ELSE IF IterFails(all, o)
        THEN [id |-> Empty, err |-> o.err,
              calls |-> <<"Items.ListAll">>, faults |-> {Fault("Items.ListAll")}]
        ELSE [id |-> Empty, err |-> M_item_not_found \o nameOrID,
              calls |-> <<"Items.ListAll">>, faults |-> {}]

resolveItemID(vaultID, nameOrID) ==
    IF nameOrID = Empty
    THEN {[id |-> Empty, err |-> M_item_required, calls |-> <<>>, faults |-> {}]}
    ELSE {ScanItems(vaultID, nameOrID, o) : o \in IterOutcomes}

\* A result that leaves the backend as it is.  vaultErr, itemErr and
\* callErr are the texts of the raw errors of resolveVaultID, of
\* resolveItemID and of the call on the item, Empty for nil.
Return(err, out, cache, calls, faults) ==
    [err |-> err, out |-> out, cache |-> cache, items |-> items,
     nextID |-> nextID, calls |-> calls, faults |-> faults,
     vaultErr |-> Empty, itemErr |-> Empty, callErr |-> Empty]

\* The results rs of a call whose resolution steps ended as x.
After(x, rs) ==
    {[r EXCEPT !.vaultErr = x.v.err,
               !.itemErr = IF x.v.err = Empty THEN x.i.err ELSE Empty] : r \in rs}

\* The result r of a call whose call on the item failed with c.
Failed(c, r) ==
    [r EXCEPT !.callErr = c]

\* Both resolution steps of Get, Set, Delete and Exists: the results of
\* resolveVaultID, each followed, when it succeeds, by resolveItemID.
\* A record [v, i]; i is the vault result itself when it failed.
Resolutions(parsed) ==
    UNION {IF v.err # Empty THEN {[v |-> v, i |-> v]}
           ELSE {[v |-> v, i |-> i] : i \in resolveItemID(v.id, parsed.Item)}
           : v \in resolveVaultID(parsed.Vault)}

NoSecret ==
    [Value |-> Empty, Fields |-> <<>>, Path |-> Empty, Tags |-> <<>>,
     VaultID |-> Empty, ItemID |-> Empty]

\* Provider.resolveField.  The secret carries the value and the path only.
resolveField(parsed) ==
    {LET r == IF c # Empty THEN [value |-> Empty, err |-> c]
              ELSE SecretsResolve(items, SecretReference(parsed))
     IN  IF r.err # Empty
         THEN Failed(r.err, Return(MapError("Get", String(parsed), r.err), NoSecret,
                                   vaultCache, <<"Secrets.Resolve">>,
                                   {Fault("Secrets.Resolve")}))
         ELSE Return(Nil, [NoSecret EXCEPT !.Value = r.value, !.Path = String(parsed)],
                     vaultCache, <<"Secrets.Resolve">>, {})
     : c \in {Empty} \cup CallErrors}

\* Provider.getItem.  The results differ in the Value of the secret when
\* itemToSecret falls back to ranging over a map.
getItem(parsed) ==
    UNION {After(x,
        IF x.v.err # Empty
        THEN {Return(MapError("Get", String(parsed), x.v.err), NoSecret, x.v.cache,
                     x.v.calls, x.v.faults)}
        ELSE IF x.i.err # Empty
        THEN {Return(MapError("Get", String(parsed), x.i.err), NoSecret, x.v.cache,
                     x.v.calls \o x.i.calls, x.i.faults)}
        ELSE {Failed(c, Return(MapError("Get", String(parsed), c), NoSecret, x.v.cache,
                               x.v.calls \o x.i.calls \o <<"Items.Get">>,
                               {Fault("Items.Get")}))
                : c \in CallErrors}
             \cup
             {Return(Nil, itemToSecret(ItemByID(items, x.i.id), String(parsed), val),
                     x.v.cache, x.v.calls \o x.i.calls \o <<"Items.Get">>, {})
                : val \in PrimaryValues(ItemByID(items, x.i.id).Fields)})
        : x \in Resolutions(parsed)}

\* Provider.Get.  out is the secret.
GetOp(path) ==
    LET parsed == Parsed[path, getDefaultVault]
    IN  IF closed
        THEN {Return(NewVaultError("Get", path, "ErrClosed", Empty), NoSecret,
                     vaultCache, <<>>, {})}
        ELSE IF ~parsed.ok
        THEN {Return(NewVaultError("Get", path, "ErrInvalidPath", parsed.msg), NoSecret,
                     vaultCache, <<>>, {})}
        ELSE IF parsed.p.Field # Empty
        THEN resolveField(parsed.p)
        ELSE getItem(parsed.p)

\* Provider.createItem, after the resolutions x.
createItem(x, parsed, secret) ==
    LET tagOrders == IF secret.Tags.isNil THEN {<<>>} ELSE Orders(DOMAIN secret.Tags.m)
        calls     == x.v.calls \o x.i.calls \o <<"Items.Create">>
    IN  {Failed(c, Return(MapError("Set", String(parsed), c), "failed", x.v.cache, calls,
                          x.i.faults \cup {Fault("Items.Create")}))
           : c \in CallErrors}
        \cup
        {[Return(Nil, "created", x.v.cache, calls, x.i.faults)
            EXCEPT !.items = CreateItem(items, nextID, x.v.id, parsed.Item,
                                        secretToFields(secret, parsed.Field, order),
                                        tagsToStrings(secret.Tags.m, tagOrder)),
                   !.nextID = nextID + 1]
           : order \in Orders(DOMAIN secret.Fields), tagOrder \in tagOrders}

\* SetField, were it to append the field without looking for it.
SetField_Append(fields, name, value) ==
    Append(fields, ItemField(sanitizeID(name), name, value, "Concealed"))

\* The fields of the item after a field-scoped update.
SetField(fields, name, value) ==
    LET idx == {i \in DOMAIN fields : fields[i].Title = name \/ fields[i].ID = name}
    IN  IF idx = {}
        THEN Append(fields, ItemField(sanitizeID(name), name, value, "Concealed"))
        ELSE LET lo == CHOOSE i \in idx : \A j \in idx : i <= j
             IN  [fields EXCEPT ![lo].Value = value]

\* updateItem, were it to add the fields of the record to those the item has.
updateItem_KeepFields(x, parsed, secret) ==
    LET item      == ItemByID(items, x.i.id)
        tagOrders == IF secret.Tags.isNil THEN {<<>>} ELSE Orders(DOMAIN secret.Tags.m)
        orders    == IF parsed.Field # Empty THEN {<<>>} ELSE Orders(DOMAIN secret.Fields)
        calls     == x.v.calls \o x.i.calls
    IN  {Failed(c, Return(MapError("Set", String(parsed), c), "failed", x.v.cache,
                          calls \o <<"Items.Get">>, {Fault("Items.Get")}))
           : c \in CallErrors}
        \cup
        {Failed(c, Return(MapError("Set", String(parsed), c), "failed", x.v.cache,
                          calls \o <<"Items.Get", "Items.Put">>, {Fault("Items.Put")}))
           : c \in CallErrors}
        \cup
        {[Return(Nil, "updated", x.v.cache, calls \o <<"Items.Get", "Items.Put">>, {})
            EXCEPT !.items = PutItem(items,
                      [item EXCEPT
                         !.Fields = IF parsed.Field # Empty
                                    THEN SetField(item.Fields, parsed.Field, secret.Value)
                                    ELSE item.Fields \o secretToFields(secret, Empty, order),
                         !.Tags = IF ~secret.Tags.isNil
                                  THEN tagsToStrings(secret.Tags.m, tagOrder)
                                  ELSE item.Tags])]
           : order \in orders, tagOrder \in tagOrders}

\* Provider.updateItem, after the resolutions x.
updateItem(x, parsed, secret) ==
    LET item      == ItemByID(items, x.i.id)
        tagOrders == IF secret.Tags.isNil THEN {<<>>} ELSE Orders(DOMAIN secret.Tags.m)
        orders    == IF parsed.Field # Empty THEN {<<>>} ELSE Orders(DOMAIN secret.Fields)
        calls     == x.v.calls \o x.i.calls
    IN  {Failed(c, Return(MapError("Set", String(parsed), c), "failed", x.v.cache,
                          calls \o <<"Items.Get">>, {Fault("Items.Get")}))
           : c \in CallErrors}
        \cup
        {Failed(c, Return(MapError("Set", String(parsed), c), "failed", x.v.cache,
                          calls \o <<"Items.Get", "Items.Put">>, {Fault("Items.Put")}))
           : c \in CallErrors}
        \cup
        {[Return(Nil, "updated", x.v.cache, calls \o <<"Items.Get", "Items.Put">>, {})
            EXCEPT !.items = PutItem(items,
                      [item EXCEPT
                         !.Fields = IF parsed.Field # Empty
                                    THEN SetField(item.Fields, parsed.Field, secret.Value)
                                    ELSE secretToFields(secret, Empty, order),
                         !.Tags = IF ~secret.Tags.isNil
                                  THEN tagsToStrings(secret.Tags.m, tagOrder)
                                  ELSE item.Tags])]
           : order \in orders, tagOrder \in tagOrders}

\* Provider.Set.  out tells what the call did: "created", "updated", "failed".
SetOp(path, secret) ==
    LET parsed == Parsed[path, getDefaultVault]
    IN  IF closed
        THEN {Return(NewVaultError("Set", path, "ErrClosed", Empty), "failed",
                     vaultCache, <<>>, {})}
        ELSE IF ~parsed.ok
        THEN {Return(NewVaultError("Set", path, "ErrInvalidPath", parsed.msg), "failed",
                     vaultCache, <<>>, {})}
        ELSE UNION {After(x,
            IF x.v.err # Empty
            THEN {Return(MapError("Set", path, x.v.err), "failed", x.v.cache,
                         x.v.calls, x.v.faults)}
            ELSE IF x.i.err = Empty
            THEN updateItem(x, parsed.p, secret)
            ELSE createItem(x, parsed.p, secret))
            : x \in Resolutions(parsed.p)}

\* Provider.Delete.  out tells what the call did: "removed" (Items.Delete
\* succeeded), "nothing" (no vault or no item to delete), "swallowed"
\* (Items.Delete failed and the error was ignored), "failed".
DeleteOp(path) ==
    LET parsed == Parsed[path, getDefaultVault]
    IN  IF closed
        THEN {Return(NewVaultError("Delete", path, "ErrClosed", Empty), "failed",
                     vaultCache, <<>>, {})}
        ELSE IF ~parsed.ok
        THEN {Return(NewVaultError("Delete", path, "ErrInvalidPath", parsed.msg), "failed",
                     vaultCache, <<>>, {})}
        ELSE UNION {After(x,
            IF x.v.err # Empty
            THEN IF x.v.err \in NotFoundTexts
                 THEN {Return(Nil, "nothing", x.v.cache, x.v.calls, x.v.faults)}
                 ELSE {Return(MapError("Delete", path, x.v.err), "failed", x.v.cache,
                              x.v.calls, x.v.faults)}
            ELSE IF x.i.err # Empty
            THEN IF x.i.err \in NotFoundTexts
                 THEN {Return(Nil, "nothing", x.v.cache, x.v.calls \o x.i.calls, x.i.faults)}
                 ELSE {Return(MapError("Delete", path, x.i.err), "failed", x.v.cache,
                              x.v.calls \o x.i.calls, x.i.faults)}
            ELSE {[Failed(c,
                      IF c \in NotFoundTexts
                      THEN Return(Nil, "swallowed", x.v.cache,
                                  x.v.calls \o x.i.calls \o <<"Items.Delete">>,
                                  {Fault("Items.Delete")})
                      ELSE Return(MapError("Delete", path, c), "failed", x.v.cache,
                                  x.v.calls \o x.i.calls \o <<"Items.Delete">>,
                                  {Fault("Items.Delete")}))
                     EXCEPT !.items = IF c \in GoneErrors
                                      THEN DeleteItem(items, x.v.id, x.i.id)
                                      ELSE items]
                    : c \in DeleteErrors}
                 \cup
                 {[Return(Nil, "removed", x.v.cache,
                          x.v.calls \o x.i.calls \o <<"Items.Delete">>, {})
                     EXCEPT !.items = DeleteItem(items, x.v.id, x.i.id)]})
            : x \in Resolutions(parsed.p)}

\* Exists, were it to answer true for an item that is reported not found.
ExistsOp_Found(path) ==
    LET parsed == Parsed[path, getDefaultVault]
    IN  IF closed
        THEN {Return(NewVaultError("Exists", path, "ErrClosed", Empty), FALSE,
                     vaultCache, <<>>, {})}
        ELSE IF ~parsed.ok
        THEN {Return(NewVaultError("Exists", path, "ErrInvalidPath", parsed.msg), FALSE,
                     vaultCache, <<>>, {})}
        ELSE UNION {After(x, {
            IF x.v.err # Empty
            THEN IF x.v.err \in NotFoundTexts
                 THEN Return(Nil, FALSE, x.v.cache, x.v.calls, x.v.faults)
                 ELSE Return(MapError("Exists", path, x.v.err), FALSE, x.v.cache,
                             x.v.calls, x.v.faults)
            ELSE IF x.i.err # Empty
            THEN IF x.i.err \in NotFoundTexts
                 THEN Return(Nil, TRUE, x.v.cache, x.v.calls \o x.i.calls, x.i.faults)
                 ELSE Return(MapError("Exists", path, x.i.err), FALSE, x.v.cache,
                             x.v.calls \o x.i.calls, x.i.faults)
            ELSE Return(Nil, TRUE, x.v.cache, x.v.calls \o x.i.calls, {})})
            : x \in Resolutions(parsed.p)}

\* Provider.Exists.  out is the boolean result.
ExistsOp(path) ==
    LET parsed == Parsed[path, getDefaultVault]
    IN  IF closed
        THEN {Return(NewVaultError("Exists", path, "ErrClosed", Empty), FALSE,
                     vaultCache, <<>>, {})}
        ELSE IF ~parsed.ok
        THEN {Return(NewVaultError("Exists", path, "ErrInvalidPath", parsed.msg), FALSE,
                     vaultCache, <<>>, {})}
        ELSE UNION {After(x, {
            IF x.v.err # Empty
            THEN IF x.v.err \in NotFoundTexts
                 THEN Return(Nil, FALSE, x.v.cache, x.v.calls, x.v.faults)
                 ELSE Return(MapError("Exists", path, x.v.err), FALSE, x.v.cache,
                             x.v.calls, x.v.faults)
            ELSE IF x.i.err # Empty
            THEN IF x.i.err \in NotFoundTexts
                 THEN Return(Nil, FALSE, x.v.cache, x.v.calls \o x.i.calls, x.i.faults)
                 ELSE Return(MapError("Exists", path, x.i.err), FALSE, x.v.cache,
                             x.v.calls \o x.i.calls, x.i.faults)
            ELSE Return(Nil, TRUE, x.v.cache, x.v.calls \o x.i.calls, {})})
            : x \in Resolutions(parsed.p)}

\* The outcome of listing one vault's items in List: "ok", "ListAll" (the
\* call fails: the vault is skipped) or "Next" (the iterator fails after
\* `at` items: the loop over the items ends there).
ListItemOutcomes ==
    {[kind |-> "ok", at |-> 0], [kind |-> "ListAll", at |-> 0]}
        \cup [kind : {"Next"}, at : 0..MaxFailAt]

\* ListPaths, were it not to test the prefix.
ListPaths_NoFilter(v, its, prefix) ==
    [i \in 1..Len(its) |-> v.Title \o <<"/">> \o its[i].Title]

\* The paths List collects from one vault.
RECURSIVE ListPaths(_, _, _)
ListPaths(v, its, prefix) ==
    IF Len(its) = 0 THEN <<>>
    ELSE LET path == v.Title \o <<"/">> \o its[1].Title
         IN  (IF prefix = Empty \/ HasPrefix(path, prefix) THEN <<path>> ELSE <<>>)
                 \o ListPaths(v, Tail(its), prefix)

\* The loop over the vaults in List: acc is [results, cache, calls, faults].
RECURSIVE ListVaults(_, _, _, _)
ListVaults(vs, prefix, li, acc) ==
    IF Len(vs) = 0 THEN acc
    ELSE LET v     == vs[1]
             o     == li[v.ID]
             all   == ItemsIn(items, v.ID)
             fails == o.kind = "Next" /\ o.at <= Len(all)
             seen  == IF fails THEN SubSeq(all, 1, o.at) ELSE all
         IN  IF /\ prefix # Empty
                /\ ~HasPrefix(v.Title, prefix)
                /\ ~HasPrefix(prefix, v.Title \o <<"/">>)
             THEN ListVaults(Tail(vs), prefix, li, acc)
             ELSE IF o.kind = "ListAll"
             THEN ListVaults(Tail(vs), prefix, li,
                             [acc EXCEPT !.calls = @ \o <<"Items.ListAll">>,
                                         !.faults = @ \cup {[call |-> "Items.ListAll", vault |-> v.ID]}])
             ELSE ListVaults(Tail(vs), prefix, li,
                             [results |-> acc.results \o ListPaths(v, seen, prefix),
                              cache   |-> cacheVaultID(acc.cache, v.Title, v.ID),
                              calls   |-> acc.calls \o <<"Items.ListAll">>,
                              faults  |-> IF fails
                                          THEN acc.faults
                                                 \cup {[call |-> "Items.Next", vault |-> v.ID]}
                                          ELSE acc.faults])

\* Provider.List.  out is the returned slice; faults names every vault
\* whose items could not be listed to the end.
ListOp(prefix) ==
    IF closed
    THEN {Return(NewVaultError("List", prefix, "ErrClosed", Empty), <<>>,
                 vaultCache, <<>>, {})}
    ELSE {LET acc == ListVaults(Yielded(Vaults, lv), prefix, li,
                                [results |-> <<>>, cache |-> vaultCache,
                                 calls |-> <<"Vaults.ListAll">>, faults |-> {}])
          IN  IF IterFails(Vaults, lv)
              THEN Return(MapError("List", prefix, lv.err), <<>>, acc.cache, acc.calls,
                          acc.faults \cup {Fault("Vaults.ListAll")})
              ELSE Return(Nil, acc.results, acc.cache, acc.calls, acc.faults)
          : lv \in IterOutcomes,
            li \in [{Vaults[i].ID : i \in DOMAIN Vaults} -> ListItemOutcomes]}

(***************************************************************************)
(* The state machine: one action per public method of the Provider.       *)
(***************************************************************************)
\* The record of a completed call: the operation, its path, the secret a
\* successful Set stored, the returned error, the returned value and the
\* backend calls that failed.
Call(op, path, arg, r) ==
    [op |-> op, path |-> path, arg |-> IF r.err = Nil THEN arg ELSE SecretValue,
     err |-> r.err, out |-> r.out, faults |-> r.faults]

\* No batch call is running.
Idle ==
    [op |-> "none", arg |-> <<>>, todo |-> <<>>, results |-> <<>>, lastErr |-> Nil,
     inner |-> <<>>]

Init ==
    /\ config \in Configs
    /\ closed = FALSE
    /\ vaultCache = <<>>
    /\ items = <<>>
    /\ nextID = 0
    /\ last = [op |-> "New", path |-> Empty, arg |-> SecretValue, err |-> Nil,
               out |-> FALSE, faults |-> {}]
    /\ batch = Idle
    /\ mu = [r |-> {}, w |-> {}, q |-> {}]
    /\ vaultMu = [r |-> {}, w |-> {}, q |-> {}]
    /\ goroutine = <<>>

\* The state a call leaves.
Leaves(r) ==
    /\ vaultCache' = r.cache
    /\ items' = r.items
    /\ nextID' = r.nextID
    /\ UNCHANGED <<config, closed, batch, mu, vaultMu, goroutine>>

Get ==
    \E path \in Paths : \E r \in GetOp(path) :
        /\ last' = Call("Get", path, SecretValue, r)
        /\ Leaves(r)

Set ==
    \E path \in Paths, secret \in Secrets : \E r \in SetOp(path, secret) :
        /\ r.nextID <= MaxItems
        /\ last' = Call("Set", path, secret, r)
        /\ Leaves(r)

Delete ==
    \E path \in Paths : \E r \in DeleteOp(path) :
        /\ last' = Call("Delete", path, SecretValue, r)
        /\ Leaves(r)

Exists ==
    \E path \in Paths : \E r \in ExistsOp(path) :
        /\ last' = Call("Exists", path, SecretValue, r)
        /\ Leaves(r)

List ==
    \E prefix \in Prefixes : \E r \in ListOp(prefix) :
        /\ last' = Call("List", prefix, SecretValue, r)
        /\ Leaves(r)

\* Provider.Close.
Close ==
    /\ closed' = TRUE
    /\ last' = [op |-> "Close", path |-> Empty, arg |-> SecretValue, err |-> Nil,
                out |-> FALSE, faults |-> {}]
    /\ UNCHANGED <<config, vaultCache, items, nextID, batch, mu, vaultMu, goroutine>>

Next ==
    \/ Get
    \/ Set
    \/ Delete
    \/ Exists
    \/ List
    \/ Close

Spec ==
    Init /\ [][Next]_vars

\* The provider of a configuration with a default vault.
InitDefault ==
    /\ config = ConfigDefault
    /\ closed = FALSE
    /\ vaultCache = <<>>
    /\ items = <<>>
    /\ nextID = 0
    /\ last = [op |-> "New", path |-> Empty, arg |-> SecretValue, err |-> Nil,
               out |-> FALSE, faults |-> {}]
    /\ batch = Idle
    /\ mu = [r |-> {}, w |-> {}, q |-> {}]
    /\ vaultMu = [r |-> {}, w |-> {}, q |-> {}]
    /\ goroutine = <<>>

\* Under the configuration with a default vault the backend creates at
\* most MaxDefaultItems items in a run.
MaxDefaultItems ==
    1

SpecDefault ==
    InitDefault /\ [][\/ Get
                       \/ (Set /\ nextID' <= MaxDefaultItems)
                       \/ Delete
                       \/ Exists
                       \/ List
                       \/ Close]_vars

(***************************************************************************)
(* batch.go: GetBatch, SetBatch, DeleteBatch.                              *)
(*                                                                         *)
(* A batch call checks closed under the lock, then releases the lock and   *)
(* calls Get, Set or Delete once per entry; each of these takes the lock   *)
(* itself.  So a batch call is a process of several steps, and a Close of  *)
(* another goroutine may run between two of them.                          *)
(* batch is the batch call in progress: its operation, its argument, the   *)
(* entries still to process (todo), the map GetBatch builds (results), the *)
(* lastErr of SetBatch and DeleteBatch, and the errors the inner calls     *)
(* returned so far (inner).                                                *)
(***************************************************************************)
\* A batch takes at most MaxBatch entries.
MaxBatch ==
    2

BatchKeys ==
    {Path_Va, Path_Xa}

\* The slices GetBatch and DeleteBatch are given.
BatchPaths ==
    UNION {[1..n -> BatchKeys] : n \in 0..MaxBatch}

\* The maps SetBatch is given.
BatchSecrets ==
    UNION {[K -> {SecretLogin, SecretValue}] : K \in SUBSET BatchKeys}

\* The record of a completed batch call; open tells whether the provider
\* was open when the call began.
BatchCall(op, arg, open, err, out, inner) ==
    [op |-> op, path |-> Empty, arg |-> arg, err |-> err, out |-> out, faults |-> {},
     open |-> open, inner |-> inner]

\* The record of a batch call that has begun and not yet returned.
Running(op, arg) ==
    [op |-> "running", path |-> Empty, arg |-> arg, err |-> Nil, out |-> op,
     faults |-> {}]

Begun(op, arg, todo) ==
    [op |-> op, arg |-> arg, todo |-> todo, results |-> <<>>, lastErr |-> Nil,
     inner |-> <<>>]

\* What a batch call does before its loop: the error it returns at once,
\* or begun when it goes on to the loop.
GetBatchBegin(paths) ==
    IF closed
    THEN [begun |-> FALSE, err |-> NewVaultError("GetBatch", Empty, "ErrClosed", Empty)]
    ELSE IF Len(paths) = 0
    THEN [begun |-> FALSE, err |-> Nil]
    ELSE [begun |-> TRUE, err |-> Nil]

SetBatchBegin(secrets) ==
    IF closed
    THEN [begun |-> FALSE, err |-> NewVaultError("SetBatch", Empty, "ErrClosed", Empty)]
    ELSE [begun |-> TRUE, err |-> Nil]

\* DeleteBatchBegin, were it not to check closed.
DeleteBatchBegin_Unchecked(paths) ==
    [begun |-> TRUE, err |-> Nil]

DeleteBatchBegin(paths) ==
    IF closed
    THEN [begun |-> FALSE, err |-> NewVaultError("DeleteBatch", Empty, "ErrClosed", Empty)]
    ELSE [begun |-> TRUE, err |-> Nil]

\* GetBatchResults, were it to keep the secret of a Get that failed.
GetBatchResults_KeepAll(results, path, r) ==
    (path :> r.out) @@ results

\* The body of the loop of GetBatch: results after the Get of path ended as r.
GetBatchResults(results, path, r) ==
    IF r.err = Nil THEN (path :> r.out) @@ results ELSE results

\* The body of the loops, were it to keep the first error.
BatchLastErr_First(lastErr, r) ==
    IF lastErr # Nil THEN lastErr ELSE r.err

\* The body of the loops of SetBatch and DeleteBatch.
BatchLastErr(lastErr, r) ==
    IF r.err # Nil THEN r.err ELSE lastErr

\* The state an inner call of a batch leaves.
InnerLeaves(r) ==
    /\ vaultCache' = r.cache
    /\ items' = r.items
    /\ nextID' = r.nextID
    /\ UNCHANGED <<config, closed, last, mu, vaultMu, goroutine>>

GetBatch ==
    /\ batch.op = "none"
    /\ \E paths \in BatchPaths :
        LET b == GetBatchBegin(paths)
        IN  IF b.begun
            THEN /\ batch' = Begun("GetBatch", paths, paths)
                 /\ last' = Running("GetBatch", paths)
                 /\ UNCHANGED <<config, closed, vaultCache, items, nextID, mu, vaultMu, goroutine>>
            ELSE /\ last' = BatchCall("GetBatch", paths, ~closed, b.err, <<>>, <<>>)
                 /\ UNCHANGED <<config, closed, vaultCache, items, nextID, batch, mu, vaultMu, goroutine>>

GetBatchGet ==
    /\ batch.op = "GetBatch"
    /\ batch.todo # <<>>
    /\ \E r \in GetOp(Head(batch.todo)) :
        /\ batch' = [batch EXCEPT !.todo = Tail(@),
                                  !.results = GetBatchResults(@, Head(batch.todo), r),
                                  !.inner = Append(@, r.err)]
        /\ InnerLeaves(r)

GetBatchReturn ==
    /\ batch.op = "GetBatch"
    /\ batch.todo = <<>>
    /\ last' = BatchCall("GetBatch", batch.arg, TRUE, Nil, batch.results, batch.inner)
    /\ batch' = Idle
    /\ UNCHANGED <<config, closed, vaultCache, items, nextID, mu, vaultMu, goroutine>>

\* The loop ranges over the map in an order of Go's choosing.
SetBatch ==
    /\ batch.op = "none"
    /\ \E secrets \in BatchSecrets :
        LET b == SetBatchBegin(secrets)
        IN  IF b.begun
            THEN /\ \E order \in Orders(DOMAIN secrets) :
                        batch' = Begun("SetBatch", secrets, order)
                 /\ last' = Running("SetBatch", secrets)
                 /\ UNCHANGED <<config, closed, vaultCache, items, nextID, mu, vaultMu, goroutine>>
            ELSE /\ last' = BatchCall("SetBatch", secrets, ~closed, b.err, FALSE, <<>>)
                 /\ UNCHANGED <<config, closed, vaultCache, items, nextID, batch, mu, vaultMu, goroutine>>

SetBatchSet ==
    /\ batch.op = "SetBatch"
    /\ batch.todo # <<>>
    /\ \E r \in SetOp(Head(batch.todo), batch.arg[Head(batch.todo)]) :
        /\ r.nextID <= MaxItems
        /\ batch' = [batch EXCEPT !.todo = Tail(@),
                                  !.lastErr = BatchLastErr(@, r),
                                  !.inner = Append(@, r.err)]
        /\ InnerLeaves(r)

SetBatchReturn ==
    /\ batch.op = "SetBatch"
    /\ batch.todo = <<>>
    /\ last' = BatchCall("SetBatch", batch.arg, TRUE, batch.lastErr, FALSE, batch.inner)
    /\ batch' = Idle
    /\ UNCHANGED <<config, closed, vaultCache, items, nextID, mu, vaultMu, goroutine>>

DeleteBatch ==
    /\ batch.op = "none"
    /\ \E paths \in BatchPaths :
        LET b == DeleteBatchBegin(paths)
        IN  IF b.begun
            THEN /\ batch' = Begun("DeleteBatch", paths, paths)
                 /\ last' = Running("DeleteBatch", paths)
                 /\ UNCHANGED <<config, closed, vaultCache, items, nextID, mu, vaultMu, goroutine>>
            ELSE /\ last' = BatchCall("DeleteBatch", paths, ~closed, b.err, FALSE, <<>>)
                 /\ UNCHANGED <<config, closed, vaultCache, items, nextID, batch, mu, vaultMu, goroutine>>

DeleteBatchDelete ==
    /\ batch.op = "DeleteBatch"
    /\ batch.todo # <<>>
    /\ \E r \in DeleteOp(Head(batch.todo)) :
        /\ batch' = [batch EXCEPT !.todo = Tail(@),
                                  !.lastErr = BatchLastErr(@, r),
                                  !.inner = Append(@, r.err)]
        /\ InnerLeaves(r)

DeleteBatchReturn ==
    /\ batch.op = "DeleteBatch"
    /\ batch.todo = <<>>
    /\ last' = BatchCall("DeleteBatch", batch.arg, TRUE, batch.lastErr, FALSE, batch.inner)
    /\ batch' = Idle
    /\ UNCHANGED <<config, closed, vaultCache, items, nextID, mu, vaultMu, goroutine>>

\* One goroutine makes the calls, one after the other; another one may
\* close the provider at any time.
NextBatch ==
    \/ GetBatch
    \/ GetBatchGet
    \/ GetBatchReturn
    \/ SetBatch
    \/ SetBatchSet
    \/ SetBatchReturn
    \/ DeleteBatch
    \/ DeleteBatchDelete
    \/ DeleteBatchReturn
    \/ (batch.op = "none" /\ Exists)
    \/ (batch.op = "none" /\ List)
    \/ Close

SpecBatch ==
    Init /\ [][NextBatch]_vars

(***************************************************************************)
(* ParsePath as a function of its arguments.  A path is written as the     *)
(* segments between its slashes, with or without the op:// prefix; a       *)
(* segment may be empty (two slashes in a row) and may hold a '?'.         *)
(***************************************************************************)
\* A path has at most MaxParts segments, empty ones included.
MaxParts ==
    5

Segments ==
    {Empty, <<"a">>, <<"b">>, <<"c", "?", "d">>}

ParseDefaults ==
    {Empty, <<"D">>}

ParseArgs ==
    [scheme : BOOLEAN,
     parts : UNION {[1..n -> Segments] : n \in 0..MaxParts},
     defaultVault : ParseDefaults]

\* The path string of the arguments.
PathOf(args) ==
    (IF args.scheme THEN OpPrefix ELSE Empty) \o Join(args.parts, <<"/">>)

InitParse ==
    /\ config \in Configs
    /\ closed = FALSE
    /\ vaultCache = <<>>
    /\ items = <<>>
    /\ nextID = 0
    /\ batch = Idle
    /\ mu = [r |-> {}, w |-> {}, q |-> {}]
    /\ vaultMu = [r |-> {}, w |-> {}, q |-> {}]
    /\ goroutine = <<>>
    /\ \E args \in ParseArgs :
        last = [op |-> "args", arg |-> args, out |-> ParseFail(Empty)]

Parse ==
    /\ last.op = "args"
    /\ last' = [op |-> "ParsePath", arg |-> last.arg,
                out |-> ParsePath(PathOf(last.arg), last.arg.defaultVault)]
    /\ UNCHANGED <<config, closed, vaultCache, items, nextID, batch, mu, vaultMu, goroutine>>

SpecParse ==
    InitParse /\ [][Parse]_vars

(***************************************************************************)
(* mapError and isNotFoundError as functions of their arguments.  An error *)
(* argument is [isNil, text]: the nil error, or an error of that text.     *)
(***************************************************************************)
\* The texts of the errors: every pattern of the two functions, some of
\* them in another case, a text that matches none, and every pair of
\* these, so that one text may match patterns of two classes.
NormalizeTexts ==
    LET atoms == NotFoundPatterns \cup AccessDeniedPatterns \cup AmbiguousPatterns
                    \cup IsNotFoundPatterns
                    \cup {Empty, E_canceled,
                          <<"F", "O", "R", "B", "I", "D", "D", "E", "N">>,
                          <<"I", "t", "e", "m", " ", "N", "o", "t", " ", "F", "o", "u", "n", "d">>,
                          <<"f", "i", "e", "l", "d", " ", "n", "o", "t", " ", "f", "o", "u", "n", "d">>}
    IN  {Empty} \cup atoms \cup {a \o <<":", " ">> \o b : a \in atoms, b \in atoms}

InitNormalize ==
    /\ config \in Configs
    /\ closed = FALSE
    /\ vaultCache = <<>>
    /\ items = <<>>
    /\ nextID = 0
    /\ batch = Idle
    /\ mu = [r |-> {}, w |-> {}, q |-> {}]
    /\ vaultMu = [r |-> {}, w |-> {}, q |-> {}]
    /\ goroutine = <<>>
    /\ \E operation \in {"Get", "Delete"}, path \in {Empty, Path_Va},
          err \in {[isNil |-> TRUE, text |-> Empty]}
                     \cup [isNil : {FALSE}, text : NormalizeTexts] :
        last = [op |-> "args",
                arg |-> [operation |-> operation, path |-> path, err |-> err],
                out |-> Nil, notFound |-> FALSE]

\* mapError(operation, path, err) and isNotFoundError(err): both return at
\* once on the nil error.
Normalize ==
    /\ last.op = "args"
    /\ last' = [op |-> "mapError", arg |-> last.arg,
                out |-> IF last.arg.err.isNil THEN Nil
                        ELSE mapError(last.arg.operation, last.arg.path,
                                      last.arg.err.text),
                notFound |-> IF last.arg.err.isNil THEN FALSE
                             ELSE isNotFoundError(last.arg.err.text)]
    /\ UNCHANGED <<config, closed, vaultCache, items, nextID, batch, mu, vaultMu, goroutine>>

SpecNormalize ==
    InitNormalize /\ [][Normalize]_vars

(***************************************************************************)
(* itemToSecret and inferFieldType as functions of their arguments: the    *)
(* fields of a backend item in their order, and a field name with a value. *)
(***************************************************************************)
\* A backend item has at most MaxFields fields.
MaxFields ==
    3

\* The fields an item is made of: a password field, one of another case
\* and no value, one known by its ID alone, concealed fields with and
\* without a value, text fields of which two share a name, and a one-time
\* code with a computed code.
ConvertFields ==
    {ItemField(S_password, S_password, <<"p">>, "Concealed"),
     ItemField(<<"p", "w">>, <<"P", "a", "s", "s", "w", "o", "r", "d">>, Empty, "Text"),
     ItemField(S_password, Empty, <<"q">>, "Text"),
     ItemField(<<"t", "o", "k", "e", "n">>, <<"t", "o", "k", "e", "n">>, <<"k">>, "Concealed"),
     ItemField(<<"p", "i", "n">>, <<"p", "i", "n">>, Empty, "Concealed"),
     ItemField(<<"a">>, <<"a">>, <<"x">>, "Text"),
     ItemField(<<"a", "2">>, <<"a">>, Empty, "Text"),
     ItemField(<<"b">>, <<"b">>, <<"y">>, "Text"),
     [ItemField(<<"o", "t", "p">>, <<"o", "t", "p">>, S_otpauth, "Totp")
        EXCEPT !.OTPCode = <<"1">>]}

\* Field names that match no rule, one rule, or several rules of
\* inferFieldType, in both cases of letters.
InferNames ==
    {Empty,
     S_password,
     <<"A", "P", "I", "_", "K", "E", "Y">>,
     <<"c", "r", "e", "d", "e", "n", "t", "i", "a", "l">>,
     <<"w", "e", "b", "s", "i", "t", "e">>,
     <<"U", "R", "L">>,
     <<"e", "n", "d", "p", "o", "i", "n", "t">>,
     <<"m", "o", "b", "i", "l", "e">>,
     <<"t", "e", "l", "e", "p", "h", "o", "n", "e">>,
     <<"h", "o", "t", "e", "l">>,
     <<"s", "e", "c", "r", "e", "t", "_", "u", "r", "l">>,
     <<"t", "o", "k", "e", "n", "_", "t", "e", "l">>,
     <<"u", "r", "l", "_", "p", "h", "o", "n", "e">>,
     <<"n", "o", "t", "e", "s">>,
     <<"o", "t", "p", "a", "u", "t", "h", ":", "/", "/">>}

InferValues ==
    {Empty, <<"x">>, S_otpauth, S_otpauth \o <<"t">>, <<"x">> \o S_otpauth,
     <<"O", "T", "P", "A", "U", "T", "H", ":", "/", "/">>}

\* The names sanitizeID is given, and the target field names of
\* secretToFields: capitals, spaces, hyphens, underscores at the ends and
\* inside, characters that are dropped, names of which nothing is left.
SanitizeNames ==
    {Empty,
     <<"a">>,
     <<"A", " ", "b">>,
     <<"a", "-", "B", "9">>,
     <<"-", "a", "_">>,
     <<"_", "_", "a", "_", "_", "b", "_", "_">>,
     <<" ", "a", ".", "b", "!">>,
     <<".", "_", "a">>,
     <<"_">>,
     <<"-", " ", "-">>,
     <<"!", "?">>,
     <<"f", "i", "e", "l", "d">>,
     <<"0">>}

\* The records secretToFields is given: with and without a value, with a
\* map of no, one and three fields.
ConvertSecrets ==
    [Value : {Empty, <<"z">>},
     Fields : {<<>>,
               (S_user :> <<"u">>),
               (S_user :> <<"z">>) @@ (S_password :> Empty)
                   @@ (<<"O", "T", "P", " ", "1">> :> S_otpauth)}]

InitConvert ==
    /\ config \in Configs
    /\ closed = FALSE
    /\ vaultCache = <<>>
    /\ items = <<>>
    /\ nextID = 0
    /\ batch = Idle
    /\ mu = [r |-> {}, w |-> {}, q |-> {}]
    /\ vaultMu = [r |-> {}, w |-> {}, q |-> {}]
    /\ goroutine = <<>>
    /\ \E fields \in UNION {[1..n -> ConvertFields] : n \in 0..MaxFields},
          name \in InferNames \cup SanitizeNames, value \in InferValues,
          secret \in ConvertSecrets :
        /\ \/ name = Empty /\ value = Empty /\ secret = [Value |-> Empty, Fields |-> <<>>]
           \/ fields = <<>> /\ name \in InferNames /\ secret = [Value |-> Empty, Fields |-> <<>>]
           \/ fields = <<>> /\ name \in SanitizeNames /\ value = Empty
        /\ last = [op |-> "args",
                   arg |-> [fields |-> fields, name |-> name, value |-> value,
                            secret |-> secret],
                   out |-> Nil]

\* itemToSecret(item, path) of an item with the fields of the arguments.
\* The same item may be converted again.
Convert ==
    /\ last.op \in {"args", "itemToSecret"}
    /\ \E value \in PrimaryValues(last.arg.fields) :
        last' = [op |-> "itemToSecret", arg |-> last.arg,
                 out |-> itemToSecret([ID |-> <<"i", "1">>, VaultID |-> <<"v", "1">>,
                                       Title |-> <<"a">>, Fields |-> last.arg.fields,
                                       Tags |-> <<>>],
                                      Path_Va, value)]
    /\ UNCHANGED <<config, closed, vaultCache, items, nextID, batch, mu, vaultMu, goroutine>>

\* inferFieldType(name, value).
Infer ==
    /\ last.op = "args"
    /\ last' = [op |-> "inferFieldType", arg |-> last.arg,
                out |-> inferFieldType(last.arg.name, last.arg.value)]
    /\ UNCHANGED <<config, closed, vaultCache, items, nextID, batch, mu, vaultMu, goroutine>>

\* secretToFields(secret, fieldName), the name of the arguments as the
\* target field name; the range over secret.Fields visits the keys in an
\* order of Go's choosing.
ToFields ==
    /\ last.op = "args"
    /\ \E order \in Orders(DOMAIN last.arg.secret.Fields) :
        last' = [op |-> "secretToFields", arg |-> last.arg,
                 out |-> secretToFields(last.arg.secret, last.arg.name, order)]
    /\ UNCHANGED <<config, closed, vaultCache, items, nextID, batch, mu, vaultMu, goroutine>>

\* sanitizeID(name).
Sanitize ==
    /\ last.op = "args"
    /\ last' = [op |-> "sanitizeID", arg |-> last.arg, out |-> sanitizeID(last.arg.name)]
    /\ UNCHANGED <<config, closed, vaultCache, items, nextID, batch, mu, vaultMu, goroutine>>

SpecConvert ==
    InitConvert /\ [][Convert \/ Infer \/ ToFields \/ Sanitize]_vars

(***************************************************************************)
(* The locks.  Goroutines call the operations of one provider at the same  *)
(* time; a call is followed from one lock operation, closed test or        *)
(* backend call to the next.  A sync.RWMutex is the set r of its readers,  *)
(* the set w of its writer and the set q of the goroutines whose Lock()    *)
(* waits: RLock() returns when no writer holds the lock and none waits,    *)
(* Lock() when no one holds it.  A goroutine is [op, cur, pc, name, k,     *)
(* todo]: the operation called, the operation it is in (the Get, Set or    *)
(* Delete of a batch), its place, the vault it resolves, its place in the  *)
(* listing of the vaults, and the entries its batch has still to process.  *)
(***************************************************************************)
\* The goroutines that call the provider; each one makes one call.
MaxThreads ==
    2

\* The operations that take p.mu.Lock(), were Set to take p.mu.RLock().
WriteLocked_NoSet ==
    {"Delete", "Close", "SetBatch", "DeleteBatch"}

\* The operations that take p.mu.Lock(); the others take p.mu.RLock().
WriteLocked ==
    {"Set", "Delete", "Close", "SetBatch", "DeleteBatch"}

\* A batch call, were it to keep p.mu for its loop: it leaves the callers
\* of Lock, among whom it is not.
BatchRelease_None(op) ==
    "q"

\* What a batch call gives up before its loop: GetBatch its place among
\* the readers (p.mu.RUnlock()), SetBatch and DeleteBatch the writer's
\* (p.mu.Unlock()).
BatchRelease(op) ==
    IF op = "GetBatch" THEN "r" ELSE "w"

InitLock ==
    /\ config \in Configs
    /\ closed = FALSE
    /\ vaultCache = <<>>
    /\ items = <<>>
    /\ nextID = 0
    /\ last = [op |-> "New", path |-> Empty, arg |-> SecretValue, err |-> Nil,
               out |-> FALSE, faults |-> {}]
    /\ batch = Idle
    /\ mu = [r |-> {}, w |-> {}, q |-> {}]
    /\ vaultMu = [r |-> {}, w |-> {}, q |-> {}]
    /\ goroutine = [t \in 1..MaxThreads |->
                      [op |-> "none", cur |-> "none", pc |-> "idle", name |-> Empty,
                       k |-> 0, todo |-> 0]]

\* One step of goroutine t.
\* Lock(), were it to return while readers hold the lock.
LockReturns_AmongReaders(m) ==
    m.w = {}

\* p.mu.Lock() and p.vaultMu.Lock() return when no goroutine holds the
\* lock, for reading or for writing.
LockReturns(m) ==
    m.r = {} /\ m.w = {}

Step(t) ==
    LET g        == goroutine[t]
        At(pc)   == goroutine' = [goroutine EXCEPT ![t].pc = pc]
        Inner(o) == CASE o = "GetBatch" -> "Get"
                      [] o = "SetBatch" -> "Set"
                      [] OTHER -> "Delete"
        Batches  == {"GetBatch", "SetBatch", "DeleteBatch"}
    IN
    \* the goroutine calls an operation; a batch is given todo entries
    \/ /\ g.pc = "idle"
       /\ \E op \in {"Get", "Set", "Delete", "Exists", "List", "Close"} \cup Batches,
             n \in 0..MaxBatch :
            /\ op \notin Batches => n = 0
            /\ goroutine' = [goroutine EXCEPT ![t] =
                               [op |-> op, cur |-> op, pc |-> "lock", name |-> Empty,
                                k |-> 0, todo |-> n]]
       /\ UNCHANGED <<config, closed, vaultCache, items, nextID, last, batch, mu, vaultMu>>
    \* p.mu.RLock(), at the entry of a read operation and in the defer of
    \* GetBatch
    \/ /\ g.pc \in {"lock", "relock"}
       /\ g.cur \notin WriteLocked
       /\ mu.w = {} /\ mu.q = {}
       /\ mu' = [mu EXCEPT !.r = @ \cup {t}]
       /\ At(IF g.pc = "lock" THEN "check" ELSE "unlock")
       /\ UNCHANGED <<config, closed, vaultCache, items, nextID, last, batch, vaultMu>>
    \* p.mu.Lock() is called, at the entry of a write operation and in the
    \* defer of SetBatch and DeleteBatch
    \/ /\ g.pc \in {"lock", "relock"}
       /\ g.cur \in WriteLocked
       /\ mu' = [mu EXCEPT !.q = @ \cup {t}]
       /\ At(IF g.pc = "lock" THEN "wait" ELSE "rewait")
       /\ UNCHANGED <<config, closed, vaultCache, items, nextID, last, batch, vaultMu>>
    \* p.mu.Lock() returns
    \/ /\ g.pc \in {"wait", "rewait"}
       /\ LockReturns(mu)
       /\ mu' = [mu EXCEPT !.q = @ \ {t}, !.w = {t}]
       /\ At(IF g.pc = "wait" THEN "check" ELSE "unlock")
       /\ UNCHANGED <<config, closed, vaultCache, items, nextID, last, batch, vaultMu>>
    \* Close: p.closed = true
    \/ /\ g.pc = "check"
       /\ g.cur = "Close"
       /\ closed' = TRUE
       /\ At("unlock")
       /\ UNCHANGED <<config, vaultCache, items, nextID, last, batch, mu, vaultMu>>
    \* if p.closed: return ErrClosed
    \/ /\ g.pc = "check"
       /\ g.cur # "Close"
       /\ closed
       /\ At("unlock")
       /\ UNCHANGED <<config, closed, vaultCache, items, nextID, last, batch, mu, vaultMu>>
    \* GetBatch of no path returns at once
    \/ /\ g.pc = "check"
       /\ g.cur = "GetBatch"
       /\ ~closed
       /\ g.todo = 0
       /\ At("unlock")
       /\ UNCHANGED <<config, closed, vaultCache, items, nextID, last, batch, mu, vaultMu>>
    \* a batch call unlocks p.mu for its loop
    \/ /\ g.pc = "check"
       /\ g.cur \in Batches
       /\ ~closed
       /\ g.cur = "GetBatch" => g.todo > 0
       /\ mu' = [mu EXCEPT ![BatchRelease(g.op)] = @ \ {t}]
       /\ At("loop")
       /\ UNCHANGED <<config, closed, vaultCache, items, nextID, last, batch, vaultMu>>
    \* the loop of a batch call: it calls Get, Set or Delete
    \/ /\ g.pc = "loop"
       /\ g.todo > 0
       /\ goroutine' = [goroutine EXCEPT ![t].cur = Inner(g.op), ![t].pc = "lock",
                                         ![t].todo = g.todo - 1]
       /\ UNCHANGED <<config, closed, vaultCache, items, nextID, last, batch, mu, vaultMu>>
    \* the loop is over: the deferred calls run, the one that locks first
    \/ /\ g.pc = "loop"
       /\ g.todo = 0
       /\ At("relock")
       /\ UNCHANGED <<config, closed, vaultCache, items, nextID, last, batch, mu, vaultMu>>
    \* ParsePath fails
    \/ /\ g.pc = "check"
       /\ g.cur \in {"Get", "Set", "Delete", "Exists"}
       /\ ~closed
       /\ At("unlock")
       /\ UNCHANGED <<config, closed, vaultCache, items, nextID, last, batch, mu, vaultMu>>
    \* Get of a path with a field: resolveField, one backend call
    \/ /\ g.pc = "check"
       /\ g.cur = "Get"
       /\ ~closed
       /\ At("item")
       /\ UNCHANGED <<config, closed, vaultCache, items, nextID, last, batch, mu, vaultMu>>
    \* resolveVaultID(name) begins
    \/ /\ g.pc = "check"
       /\ g.cur \in {"Get", "Set", "Delete", "Exists"}
       /\ ~closed
       /\ \E name \in {VaultV, VaultX} :
            goroutine' = [goroutine EXCEPT ![t].pc = "vrlock", ![t].name = name]
       /\ UNCHANGED <<config, closed, vaultCache, items, nextID, last, batch, mu, vaultMu>>
    \* p.vaultMu.RLock()
    \/ /\ g.pc = "vrlock"
       /\ vaultMu.w = {} /\ vaultMu.q = {}
       /\ vaultMu' = [vaultMu EXCEPT !.r = @ \cup {t}]
       /\ At("lookup")
       /\ UNCHANGED <<config, closed, vaultCache, items, nextID, last, batch, mu>>
    \* the lookup in p.vaultCache and p.vaultMu.RUnlock()
    \/ /\ g.pc = "lookup"
       /\ vaultMu' = [vaultMu EXCEPT !.r = @ \ {t}]
       /\ IF g.name \in DOMAIN vaultCache
          THEN At("item")
          ELSE goroutine' = [goroutine EXCEPT ![t].pc = "vaults", ![t].k = 1]
       /\ UNCHANGED <<config, closed, vaultCache, items, nextID, last, batch, mu>>
    \* List: Vaults.ListAll
    \/ /\ g.pc = "check"
       /\ g.cur = "List"
       /\ ~closed
       /\ goroutine' = [goroutine EXCEPT ![t].pc = "vaults", ![t].k = 1]
       /\ UNCHANGED <<config, closed, vaultCache, items, nextID, last, batch, mu, vaultMu>>
    \* Vaults.ListAll or the iterator fails, or the listing ends: with no
    \* match for resolveVaultID, with the result for List
    \/ /\ g.pc = "vaults"
       /\ At("unlock")
       /\ UNCHANGED <<config, closed, vaultCache, items, nextID, last, batch, mu, vaultMu>>
    \* List skips a vault: its title fails the prefix, or Items.ListAll fails
    \/ /\ g.pc = "vaults"
       /\ g.cur = "List"
       /\ g.k <= Len(Vaults)
       /\ goroutine' = [goroutine EXCEPT ![t].k = g.k + 1]
       /\ UNCHANGED <<config, closed, vaultCache, items, nextID, last, batch, mu, vaultMu>>
    \* cacheVaultID: p.vaultMu.Lock() is called
    \/ /\ g.pc = "vaults"
       /\ g.k <= Len(Vaults)
       /\ vaultMu' = [vaultMu EXCEPT !.q = @ \cup {t}]
       /\ At("vwait")
       /\ UNCHANGED <<config, closed, vaultCache, items, nextID, last, batch, mu>>
    \* cacheVaultID: p.vaultMu.Lock() returns
    \/ /\ g.pc = "vwait"
       /\ LockReturns(vaultMu)
       /\ vaultMu' = [vaultMu EXCEPT !.q = @ \ {t}, !.w = {t}]
       /\ At("vwrite")
       /\ UNCHANGED <<config, closed, vaultCache, items, nextID, last, batch, mu>>
    \* cacheVaultID: the two entries and p.vaultMu.Unlock(); resolveVaultID
    \* returns at the vault it looks for
    \/ /\ g.pc = "vwrite"
       /\ vaultCache' = cacheVaultID(vaultCache, Vaults[g.k].Title, Vaults[g.k].ID)
       /\ vaultMu' = [vaultMu EXCEPT !.w = @ \ {t}]
       /\ IF g.cur # "List" /\ g.name \in {Vaults[g.k].Title, Vaults[g.k].ID}
          THEN At("item")
          ELSE goroutine' = [goroutine EXCEPT ![t].pc = "vaults", ![t].k = g.k + 1]
       /\ UNCHANGED <<config, closed, items, nextID, last, batch, mu>>
    \* the backend calls on the item: resolveItemID and Items.Get, Put,
    \* Create or Delete, or Secrets.Resolve
    \/ /\ g.pc = "item"
       /\ At("unlock")
       /\ UNCHANGED <<config, closed, vaultCache, items, nextID, last, batch, mu, vaultMu>>
    \* the deferred p.mu.RUnlock() or p.mu.Unlock(); the call returns, to
    \* the loop of its batch if it has one
    \/ /\ g.pc = "unlock"
       /\ mu' = [mu EXCEPT ![IF g.cur \in WriteLocked THEN "w" ELSE "r"] = @ \ {t}]
       /\ IF g.cur # g.op
          THEN goroutine' = [goroutine EXCEPT ![t].cur = g.op, ![t].pc = "loop"]
          ELSE At("done")
       /\ UNCHANGED <<config, closed, vaultCache, items, nextID, last, batch, vaultMu>>

\* The goroutines run at the same time, and each one goes on when it can.
SpecLock ==
    /\ InitLock
    /\ [][\E t \in 1..MaxThreads : Step(t)]_vars
    /\ WF_vars(\E t \in 1..MaxThreads : Step(t))

(***************************************************************************)
(* The properties.  A property about what a call returns is stated over    *)
(* every result the call may have in the current state: Op(path) is the    *)
(* set of them.                                                            *)
(***************************************************************************)
\* The backend calls that enumerate: resolveVaultID and resolveItemID rest
\* on them.
EnumCalls ==
    {"Vaults.ListAll", "Items.ListAll", "Items.Next"}

\* None of the failed calls is an enumeration.
EnumOk(faults) ==
    \A f \in faults : f.call \notin EnumCalls

\* The path parses under the configuration of the provider.
ParsesHere(path) ==
    Parsed[path, getDefaultVault].ok

\* The raw errors that say that a vault or an item is not there: those of
\* the backend, and those resolveVaultID and resolveItemID make themselves.
NotFoundReports ==
    {P_vaultNotFound, P_itemNotFound}
        \cup {M_vault_not_found \o n : n \in Names}
        \cup {M_item_not_found \o n : n \in Names}

\* The raw error that ended the resolution steps of the call, Empty if both
\* succeeded.
ResolutionErr(r) ==
    IF r.vaultErr # Empty THEN r.vaultErr ELSE r.itemErr

\* The call made no backend call of that name.
NoCall(r, name) ==
    \A i \in DOMAIN r.calls : r.calls[i] # name

\* The call returned ErrClosed, made no backend call and changed nothing.
Refused(r) ==
    /\ r.err.Kind = "ErrClosed"
    /\ r.calls = <<>>
    /\ r.items = items
    /\ r.cache = vaultCache

\* On a closed provider every call is refused, whatever its arguments, a
\* path that does not parse included.
EveryCallRefused ==
    /\ \A path \in AllPaths :
        /\ \A r \in GetOp(path) : Refused(r)
        /\ \A secret \in Secrets : \A r \in SetOp(path, secret) : Refused(r)
        /\ \A r \in DeleteOp(path) : Refused(r)
        /\ \A r \in ExistsOp(path) : Refused(r)
    /\ \A prefix \in Prefixes : \A r \in ListOp(prefix) : Refused(r)
    /\ \A paths \in BatchPaths :
        /\ ~GetBatchBegin(paths).begun
        /\ GetBatchBegin(paths).err.Kind = "ErrClosed"
        /\ ~DeleteBatchBegin(paths).begun
        /\ DeleteBatchBegin(paths).err.Kind = "ErrClosed"
    /\ \A secrets \in BatchSecrets :
        /\ ~SetBatchBegin(secrets).begun
        /\ SetBatchBegin(secrets).err.Kind = "ErrClosed"

\* C1: once the provider is closed, every Get, Set, Delete, Exists, List,
\* GetBatch, SetBatch and DeleteBatch call returns ErrClosed before it
\* parses its path and without a backend call; the provider stays closed
\* for good, and a Close call returns nil.
C1_ClosedForGood ==
    /\ [](closed => EveryCallRefused)
    /\ [][closed => closed' /\ (last'.op = "Close" => last'.err = Nil)]_vars

\* C1, witnessed: the provider was closed while a GetBatch was running, and
\* the Get the batch made next returned ErrClosed.
C1_Witness ==
    /\ closed
    /\ batch.op = "GetBatch"
    /\ batch.inner # <<>>
    /\ batch.inner[Len(batch.inner)].Kind = "ErrClosed"

\* C2: on an open provider, right after a Delete(path) that returned nil
\* and whose enumeration calls succeeded, a second Delete(path) whose
\* enumeration calls succeed returns nil.
C2_DeleteTwice ==
    (~closed /\ last.op = "Delete" /\ last.err = Nil /\ EnumOk(last.faults))
        => \A r \in DeleteOp(last.path) : EnumOk(r.faults) => r.err = Nil

\* The items of the vault that carry the title.
Titled(vaultID, title) ==
    {i \in DOMAIN items : items[i].VaultID = vaultID /\ items[i].Title = title}

\* The last call was a Set("V/Item", record) that created the only item of
\* that title, from a record with a non-empty field map.
CreatedFromFields ==
    /\ ~closed
    /\ last.op = "Set"
    /\ last.out = "created"
    /\ Parsed[last.path, getDefaultVault].p.Field = Empty
    /\ DOMAIN last.arg.Fields # {}
    /\ Cardinality({i \in DOMAIN items :
                      items[i].Title = Parsed[last.path, getDefaultVault].p.Item}) = 1

\* C3: after such a Set, a Get of the item that succeeds returns the fields
\* of the record, and as value the field "password" when the record has
\* one; a Get of a field f of the item that succeeds returns F[f].
C3_RoundTrip ==
    CreatedFromFields =>
        LET F == last.arg.Fields
        IN  /\ \A r \in GetOp(last.path) :
                 r.err = Nil =>
                    /\ r.out.Fields = F
                    /\ (S_password \in DOMAIN F => r.out.Value = F[S_password])
            /\ \A f \in DOMAIN F : \A r \in GetOp(last.path \o <<"/">> \o f) :
                 r.err = Nil => r.out.Value = F[f]

\* C4: right after a Delete(path) that removed an item, an Exists(path)
\* whose enumeration calls succeed returns (false, nil), and a Set(path)
\* that succeeds creates an item.
C4_DeletedIsGone ==
    (~closed /\ last.op = "Delete" /\ last.out = "removed")
        => /\ \A r \in ExistsOp(last.path) :
                EnumOk(r.faults) => (r.out = FALSE /\ r.err = Nil)
           /\ \A secret \in Secrets : \A r \in SetOp(last.path, secret) :
                (EnumOk(r.faults) /\ r.err = Nil) => r.out = "created"

\* C5: a Set whose resolution of the item fails with anything but not-found
\* returns an error and leaves the items as they are; no vault ever holds
\* two items of one title.
C5_CreateOnlyWhenNotFound ==
    /\ ~closed =>
         \A path \in Paths, secret \in Secrets : \A r \in SetOp(path, secret) :
            (r.itemErr # Empty /\ r.itemErr \notin NotFoundReports)
                => (r.err # Nil /\ r.items = items)
    /\ \A i, j \in DOMAIN items :
         (items[i].VaultID = items[j].VaultID /\ items[i].Title = items[j].Title)
            => i = j

C7_GetBatch ==
    (last.op = "GetBatch" /\ last.open) =>
        /\ last.err = Nil
        /\ DOMAIN last.out =
              {last.arg[i] : i \in {j \in DOMAIN last.arg : last.inner[j] = Nil}}
        /\ (last.arg = <<>> => last.out = <<>>)

\* C7, witnessed: a GetBatch of two paths returned one of them.
C7_Witness ==
    /\ last.op = "GetBatch"
    /\ last.open
    /\ Len(last.arg) = 2
    /\ \E i, j \in DOMAIN last.inner : last.inner[i] = Nil /\ last.inner[j] # Nil
    /\ Cardinality(DOMAIN last.out) = 1

SegmentsOf(parts) ==
    SelectSeq(parts, LAMBDA x : x # Empty)

\* The parts of a path up to its first '?'.
RECURSIVE BeforeQuery(_)
BeforeQuery(parts) ==
    IF parts = <<>> THEN <<>>
    ELSE LET at == {i \in DOMAIN parts[1] : parts[1][i] = "?"}
         IN  IF at = {} THEN <<parts[1]>> \o BeforeQuery(Tail(parts))
             ELSE <<SubSeq(parts[1], 1, (CHOOSE i \in at : \A j \in at : i <= j) - 1)>>

\* The parse failed with an error that wraps ErrInvalidPath.
InvalidPath(out) ==
    ~out.ok /\ HasPrefix(out.msg, ErrInvalidPath)

\* C9: the parse of a path without the op:// prefix is fixed by its
\* segments s and the default vault D: one segment gives (D, s1) and fails
\* without D; two give (D, s1, field s2) with D and (s1, s2) without; three
\* give vault/item/field; four give vault/item/section/field; none or more
\* than four fail with ErrInvalidPath.
C9_PlainPath ==
    (last.op = "ParsePath" /\ ~last.arg.scheme) =>
        LET s == SegmentsOf(last.arg.parts)
            D == last.arg.defaultVault
            n == Len(s)
        IN  /\ (n = 1 /\ D # Empty)
                 => last.out = ParseOk(ParsedPath(D, s[1], Empty, Empty))
            /\ (n = 1 /\ D = Empty) => InvalidPath(last.out)
            /\ (n = 2 /\ D # Empty)
                 => last.out = ParseOk(ParsedPath(D, s[1], Empty, s[2]))
            /\ (n = 2 /\ D = Empty)
                 => last.out = ParseOk(ParsedPath(s[1], s[2], Empty, Empty))
            /\ n = 3 => last.out = ParseOk(ParsedPath(s[1], s[2], Empty, s[3]))
            /\ n = 4 => last.out = ParseOk(ParsedPath(s[1], s[2], s[3], s[4]))
            /\ (n = 0 \/ n > 4) => InvalidPath(last.out)

\* C9, witnessed: a path of two segments, one empty part between them, was
\* parsed with a default vault.
C9_Witness ==
    /\ last.op = "ParsePath"
    /\ ~last.arg.scheme
    /\ last.arg.defaultVault # Empty
    /\ Len(last.arg.parts) = 3
    /\ Len(SegmentsOf(last.arg.parts)) = 2
    /\ last.out.ok
    /\ last.out.p.Field # Empty

\* C10: the parse of a path with the op:// prefix is fixed by the segments
\* s of what stands before its first '?', whatever the default vault: two
\* give vault/item, three vault/item/field, four vault/item/section/field,
\* every other number fails with ErrInvalidPath.
C10_SecretReference ==
    (last.op = "ParsePath" /\ last.arg.scheme) =>
        LET s == SegmentsOf(BeforeQuery(last.arg.parts))
            n == Len(s)
        IN  /\ n = 2 => last.out = ParseOk(ParsedPath(s[1], s[2], Empty, Empty))
            /\ n = 3 => last.out = ParseOk(ParsedPath(s[1], s[2], Empty, s[3]))
            /\ n = 4 => last.out = ParseOk(ParsedPath(s[1], s[2], s[3], s[4]))
            /\ n \notin {2, 3, 4} => InvalidPath(last.out)

\* C10, witnessed: a reference with a query and more parts after it was
\* parsed, with a default vault set, to the two segments before the query.
C10_Witness ==
    /\ last.op = "ParsePath"
    /\ last.arg.scheme
    /\ last.arg.defaultVault # Empty
    /\ Len(last.arg.parts) > Len(BeforeQuery(last.arg.parts))
    /\ last.out.ok
    /\ last.out.p.Field = Empty
    /\ last.out.p.Vault # last.arg.defaultVault

\* The vault the parsed path names is not in the account, or it holds no
\* item of the name or identifier the path gives.
Missing(p) ==
    LET vs == {i \in DOMAIN Vaults : Vaults[i].ID = p.Vault \/ Vaults[i].Title = p.Vault}
    IN  \/ vs = {}
        \/ \A i \in vs : FirstMatch(ItemsIn(items, Vaults[i].ID), p.Item) = 0

DeniedTexts ==
    {e \in ErrorTexts : containsAny(e, AccessDeniedPatterns \cup AmbiguousPatterns)}

\* C12: an error whose text matches an access-denied or an ambiguous
\* pattern is never classified not-found by the normalizer; on an open
\* provider a Delete it ends returns an error, an Exists it ends does not
\* return (false, nil), and a Set it ends creates no item.
C12_NeverDowngraded ==
    /\ \A e \in DeniedTexts, operation \in Operations :
         Mapped[operation, e].Kind # "ErrSecretNotFound"
    /\ ~closed =>
         \A path \in Paths :
            /\ \A r \in DeleteOp(path) :
                 (ResolutionErr(r) \in DeniedTexts \/ r.callErr \in DeniedTexts)
                    => r.err # Nil
            /\ \A r \in ExistsOp(path) :
                 ResolutionErr(r) \in DeniedTexts => ~(r.out = FALSE /\ r.err = Nil)
            /\ \A secret \in Secrets : \A r \in SetOp(path, secret) :
                 ResolutionErr(r) \in DeniedTexts => r.out # "created"

\* The text holds one of the patterns, whatever the case of its letters.
Matches(text, patterns) ==
    \E pat \in patterns : \E i \in 0..(Len(text) - Len(pat)) :
        \A k \in 1..Len(pat) : Lower(text[i + k]) = Lower(pat[k])

\* The class the normalizer is to give an error of that text.
ClassOf(text) ==
    IF Matches(text, NotFoundPatterns) THEN "ErrSecretNotFound"
    ELSE IF Matches(text, AccessDeniedPatterns) THEN "ErrAccessDenied"
    ELSE IF Matches(text, AmbiguousPatterns) THEN "ambiguous"
    ELSE "raw"

\* C13: mapError returns nil for the nil error; for any other error it
\* returns the first class, of not-found, access-denied and ambiguous in
\* this order, one of whose patterns the text holds in any case of letters,
\* and the original error, wrapped, when it holds none.
C13_FirstClass ==
    last.op = "mapError" =>
        IF last.arg.err.isNil
        THEN last.out = Nil
        ELSE /\ last.out # Nil
             /\ last.out.Kind = ClassOf(last.arg.err.text)
             /\ last.out.Kind = "raw" => last.out.Cause = last.arg.err.text

\* C13, witnessed: an error whose text holds an access-denied pattern in
\* capitals and a not-found pattern after it was classified not-found.
C13_Witness ==
    /\ last.op = "mapError"
    /\ ~last.arg.err.isNil
    /\ HasPrefix(last.arg.err.text, <<"F", "O", "R", "B", "I", "D", "D", "E", "N">>)
    /\ Matches(last.arg.err.text, {P_itemNotFound})
    /\ last.out.Kind = "ErrSecretNotFound"

\* C14: the error mapError returns for a non-nil error carries the
\* operation and the path it was given, and wraps the original error: its
\* text is kept, whatever the class.
C14_RawTextKept ==
    (last.op = "mapError" /\ ~last.arg.err.isNil) =>
        /\ last.out.Op = last.arg.operation
        /\ last.out.Path = last.arg.path
        /\ last.out.Cause = last.arg.err.text

\* C15: for a non-nil error, isNotFoundError is true exactly when mapError
\* classifies the error not-found.
C15_SamePredicate ==
    (last.op = "mapError" /\ ~last.arg.err.isNil) =>
        (last.notFound <=> last.out.Kind = "ErrSecretNotFound")

C17_ItemMemo ==
    (/\ ~closed
     /\ \/ (last.op = "Exists" /\ last.out = TRUE)
        \/ (last.op = "Get" /\ last.err = Nil
               /\ Parsed[last.path, getDefaultVault].p.Field = Empty))
        => /\ \A r \in ExistsOp(last.path) : NoCall(r, "Items.ListAll")
           /\ \A r \in GetOp(last.path) : NoCall(r, "Items.ListAll")

\* The records the Set of the two claims below is given: those of the
\* callers, and a bare value whose tag map is empty, not nil.
SetRecords ==
    Secrets \cup {[Value |-> <<"y">>, Fields |-> <<>>,
                   Tags |-> [isNil |-> FALSE, m |-> <<>>]]}

\* The items differ at position j only, where the item keeps its
\* identifier, its vault and its title.
OnlyItem(j, before, after) ==
    /\ DOMAIN after = DOMAIN before
    /\ j \in DOMAIN before
    /\ \A k \in DOMAIN before : k # j => after[k] = before[k]
    /\ after[j].ID = before[j].ID
    /\ after[j].VaultID = before[j].VaultID
    /\ after[j].Title = before[j].Title

\* The tag strings of a tag map: "key:value", or the key when the value
\* is empty.
TagStrings(m) ==
    {IF m[k] = Empty THEN k ELSE k \o <<":">> \o m[k] : k \in DOMAIN m}

\* The tags of the item after a Set of the record: as before when the
\* record has no tag map, those of the map otherwise.
TagsAfterSet(before, after, secret) ==
    IF secret.Tags.isNil
    THEN after = before
    ELSE /\ {after[i] : i \in DOMAIN after} = TagStrings(secret.Tags.m)
         /\ Len(after) = Cardinality(DOMAIN secret.Tags.m)

\* The fields after a Set of field f to value: the first field of title or
\* identifier f has the value and is otherwise as before, or, when there is
\* none, a concealed field f of that value is added at the end; every
\* other field is as before.
FieldScoped(before, after, f, value) ==
    LET hits == {i \in DOMAIN before : before[i].Title = f \/ before[i].ID = f}
    IN  IF hits = {}
        THEN /\ Len(after) = Len(before) + 1
             /\ \A i \in DOMAIN before : after[i] = before[i]
             /\ after[Len(after)].Title = f
             /\ after[Len(after)].Value = value
             /\ after[Len(after)].FieldType = "Concealed"
        ELSE /\ Len(after) = Len(before)
             /\ \E h \in hits :
                  /\ \A i \in hits : h <= i
                  /\ after[h] = [before[h] EXCEPT !.Value = value]
                  /\ \A i \in DOMAIN before : i # h => after[i] = before[i]

\* C18: on an open provider a Set of a path with a field that finds the
\* item changes that item only, and of it the one field (FieldScoped);
\* title, identifier and vault stay, and the tags stay when the record has
\* no tag map.
C18_FieldScopedSet ==
    ~closed =>
        \A path \in {Path_Vapassword, Path_Vauser} :
          \A secret \in SetRecords :
            \A r \in SetOp(path, secret) :
              r.out = "updated" =>
                 \E j \in DOMAIN items :
                    /\ OnlyItem(j, items, r.items)
                    /\ FieldScoped(items[j].Fields, r.items[j].Fields,
                                   Parsed[path, getDefaultVault].p.Field, secret.Value)
                    /\ secret.Tags.isNil => r.items[j].Tags = items[j].Tags

\* C18, witnessed: a Set of the password field of a tagged login, with a
\* record without tags, left the user name and the tags in place.
C18_Witness ==
    /\ ~closed
    /\ last.op = "Set"
    /\ last.out = "updated"
    /\ last.path = Path_Vapassword
    /\ last.arg = SecretValue
    /\ \E j \in DOMAIN items :
         /\ items[j].Tags # <<>>
         /\ Len(items[j].Fields) = 2
         /\ \E i \in DOMAIN items[j].Fields :
              items[j].Fields[i].Title = S_user /\ items[j].Fields[i].Value = <<"u">>
         /\ \E i \in DOMAIN items[j].Fields :
              items[j].Fields[i].Title = S_password /\ items[j].Fields[i].Value = <<"z">>
    /\ \E r \in SetOp(Path_Vauser, SecretValue) :
         r.out = "updated" /\ \E j \in DOMAIN items : Len(r.items[j].Fields) = 2

\* The fields are those built from the record: one field for each entry of
\* its field map, of the type its name and value infer; a single concealed
\* field "password" of the value of the record when the map is empty and
\* the value is not; none when both are empty.
RecordFields(after, secret) ==
    IF DOMAIN secret.Fields # {}
    THEN /\ Len(after) = Cardinality(DOMAIN secret.Fields)
         /\ \A n \in DOMAIN secret.Fields : \E i \in DOMAIN after :
              /\ after[i].Title = n
              /\ after[i].Value = secret.Fields[n]
              /\ after[i].FieldType = inferFieldType(n, secret.Fields[n])
    ELSE IF secret.Value # Empty
    THEN /\ Len(after) = 1
         /\ after[1].Title = S_password
         /\ after[1].Value = secret.Value
         /\ after[1].FieldType = "Concealed"
    ELSE after = <<>>

ListPrefixes ==
    Prefixes \cup {VaultV, VaultV \o <<"/">>, Path_Va \o <<"b">>, <<"v", "1">>, VaultX}

\* The path starts with the prefix.
StartsWith(path, prefix) ==
    /\ Len(prefix) <= Len(path)
    /\ \A i \in 1..Len(prefix) : path[i] = prefix[i]

\* The pairs of a vault among ids and an item of it whose path
\* "vault/item" starts with the prefix.
Listed(ids, prefix) ==
    {<<i, k>> \in (DOMAIN Vaults) \X (DOMAIN items) :
        /\ Vaults[i].ID \in ids
        /\ items[k].VaultID = Vaults[i].ID
        /\ StartsWith(Vaults[i].Title \o <<"/">> \o items[k].Title, prefix)}

\* The paths of such pairs.
ListedPaths(ids, prefix) ==
    {Vaults[x[1]].Title \o <<"/">> \o items[x[2]].Title : x \in Listed(ids, prefix)}

PasswordFields(fields) ==
    {i \in DOMAIN fields : ToLower(FieldName(fields[i])) = S_password}

ConcealedFields(fields) ==
    {i \in DOMAIN fields : fields[i].FieldType = "Concealed"}

Lowest(idx) ==
    CHOOSE i \in idx : \A j \in idx : i <= j

Highest(idx) ==
    CHOOSE i \in idx : \A j \in idx : i >= j

C22_Deterministic ==
    [][(last.op = "itemToSecret" /\ last'.op = "itemToSecret")
          => last'.out.Value = last.out.Value]_vars

\* The rules on the name of a field, in their precedence: the words of a
\* rule and its type.
NameRules ==
    << [words |-> {S_password, <<"s", "e", "c", "r", "e", "t">>, <<"t", "o", "k", "e", "n">>,
                   <<"k", "e", "y">>,
                   <<"c", "r", "e", "d", "e", "n", "t", "i", "a", "l">>},
        type  |-> "Concealed"],
       [words |-> {<<"u", "r", "l">>, <<"w", "e", "b", "s", "i", "t", "e">>,
                   <<"e", "n", "d", "p", "o", "i", "n", "t">>},
        type  |-> "Url"],
       [words |-> {<<"p", "h", "o", "n", "e">>, <<"m", "o", "b", "i", "l", "e">>,
                   <<"t", "e", "l">>},
        type  |-> "Phone"] >>

\* The rules that the name matches.
RulesOf(name) ==
    {i \in DOMAIN NameRules : \E w \in NameRules[i].words : Contains(ToLower(name), w)}

C24_RoundTrip ==
    LET s == last.arg.parts
    IN  (/\ last.op = "ParsePath"
         /\ ~last.arg.scheme
         /\ Len(s) = 3
         /\ \A i \in 1..3 : s[i] # Empty)
        => /\ last.out = ParseOk(ParsedPath(s[1], s[2], Empty, s[3]))
           /\ String(last.out.p) = s[1] \o <<"/">> \o s[2] \o <<"/">> \o s[3]
           /\ SecretReference(last.out.p)
                = OpPrefix \o s[1] \o <<"/">> \o s[2] \o <<"/">> \o s[3]

\* C24, witnessed: a path of three segments, the first of them with a '?',
\* was parsed with a default vault set.
C24_Witness ==
    /\ last.op = "ParsePath"
    /\ ~last.arg.scheme
    /\ last.arg.defaultVault # Empty
    /\ Len(last.arg.parts) = 3
    /\ \A i \in 1..3 : last.arg.parts[i] # Empty
    /\ Contains(last.arg.parts[1], <<"?">>)
    /\ last.out.ok
    /\ last.out.p.Vault = last.arg.parts[1]

\* C25: a path without the op:// prefix parses, with and without a default
\* vault, to what the path of its segments alone parses to (the same
\* reference, or the same failure), however many slashes come before,
\* between and after the segments; so two paths of the same segments parse
\* alike.
C25_EmptySegments ==
    (last.op = "ParsePath" /\ ~last.arg.scheme) =>
        LET alone == [last.arg EXCEPT !.parts = SegmentsOf(last.arg.parts)]
        IN  /\ last.out = ParsePath(PathOf(alone), last.arg.defaultVault)
            /\ last.out.ok \/ InvalidPath(last.out)

\* C25, witnessed: a path with a slash before, two slashes between and a
\* slash after its two segments was parsed to a reference.
C25_Witness ==
    /\ last.op = "ParsePath"
    /\ ~last.arg.scheme
    /\ Len(last.arg.parts) = 5
    /\ last.arg.parts[1] = Empty
    /\ last.arg.parts[3] = Empty
    /\ last.arg.parts[5] = Empty
    /\ Len(SegmentsOf(last.arg.parts)) = 2
    /\ last.out.ok

\* C26: a parse that succeeds, of a path with or without the op:// prefix
\* and with or without a default vault, returns a vault and an item that
\* are not empty, and a section only together with a field.
C26_Reference ==
    (last.op = "ParsePath" /\ last.out.ok) =>
        /\ last.out.p.Vault # Empty
        /\ last.out.p.Item # Empty
        /\ last.out.p.Section # Empty => last.out.p.Field # Empty

\* C26, witnessed: a path of one segment was parsed to the default vault
\* and the item; without a default vault the same path fails.
C26_Witness ==
    /\ last.op = "ParsePath"
    /\ ~last.arg.scheme
    /\ Len(SegmentsOf(last.arg.parts)) = 1
    /\ last.out.ok
    /\ last.out.p.Vault = last.arg.defaultVault
    /\ ~ParsePath(PathOf(last.arg), Empty).ok

(***************************************************************************)
(* Batch calls and a Close of another goroutine.                           *)
(***************************************************************************)
\* C28: a batch call that returns a nil error made no inner call that
\* failed because the provider was closed meanwhile: a GetBatch omits no
\* path for an ErrClosed of its Get, and a SetBatch or DeleteBatch that
\* skipped an entry for an ErrClosed does not return nil.
C28_ClosureReported ==
    (last.op \in {"GetBatch", "SetBatch", "DeleteBatch"} /\ last.err = Nil) =>
        \A i \in DOMAIN last.inner : last.inner[i].Kind # "ErrClosed"

(***************************************************************************)
(* The locks of concurrent calls.                                          *)
(***************************************************************************)
\* Goroutine t is in a Get, Set, Delete, Exists or List, of a batch or
\* not, past the test of closed and not past its last backend call; or it
\* is in a Close that holds the lock.
InCall(t) ==
    \/ /\ goroutine[t].cur \in {"Get", "Set", "Delete", "Exists", "List"}
       /\ goroutine[t].pc \in {"vrlock", "lookup", "vaults", "vwait", "vwrite", "item"}
    \/ /\ goroutine[t].cur = "Close"
       /\ goroutine[t].pc \in {"check", "unlock"}

\* C27: a goroutine that is in a Set, a Delete or a Close is alone: no
\* other goroutine is in a Set, Delete, Close, Get, Exists or List at the
\* same time.
C27_Exclusive ==
    \A t, u \in DOMAIN goroutine :
        (t # u /\ InCall(t) /\ goroutine[t].cur \in {"Set", "Delete", "Close"})
            => ~InCall(u)

\* C27, witnessed: a Get and a List are past their tests of closed at the
\* same time, the one at its backend calls on the item and the other
\* writing the cache.
C27_Witness ==
    /\ InCall(1) /\ InCall(2)
    /\ goroutine[1].cur = "Get" /\ goroutine[1].pc = "item"
    /\ goroutine[2].cur = "List" /\ goroutine[2].pc = "vwrite"

\* Every goroutine has made its call, and the call has returned.
AllReturned ==
    \A t \in DOMAIN goroutine : goroutine[t].pc = "done"

\* C29: every call returns in the end; a goroutine that calls RLock or Lock
\* of p.mu does not hold p.mu, one that calls RLock or Lock of p.vaultMu
\* does not hold p.vaultMu, and one that unlocks a lock holds it; once
\* every call has returned, no one holds or waits for either lock.
C29_Locks ==
    /\ <>AllReturned
    /\ [](\A t \in DOMAIN goroutine :
            LET pc == goroutine[t].pc
            IN  /\ pc \in {"lock", "wait", "relock", "rewait"} => t \notin mu.r \cup mu.w
                /\ pc \in {"vrlock", "vaults", "vwait"} => t \notin vaultMu.r \cup vaultMu.w
                /\ pc \in {"check", "unlock"} => t \in mu.r \cup mu.w
                /\ pc = "lookup" => t \in vaultMu.r
                /\ pc = "vwrite" => t \in vaultMu.w
                /\ pc = "loop" => t \notin mu.r \cup mu.w \cup mu.q)
    /\ [](AllReturned =>
            /\ mu = [r |-> {}, w |-> {}, q |-> {}]
            /\ vaultMu = [r |-> {}, w |-> {}, q |-> {}])

\* C29, witnessed: the Set of a SetBatch waits for p.mu, which the Get of
\* a GetBatch holds; neither batch holds the lock for itself.
C29_Witness ==
    /\ goroutine[1].op = "SetBatch" /\ goroutine[1].cur = "Set"
    /\ goroutine[1].pc = "wait"
    /\ goroutine[2].op = "GetBatch" /\ goroutine[2].cur = "Get"
    /\ goroutine[2].pc = "item"
    /\ mu = [r |-> {2}, w |-> {}, q |-> {1}]

(***************************************************************************)
(* Exists and Get.                                                         *)
(***************************************************************************)
\* The last call was an Exists that returned (true, nil) with no backend
\* call failing, and the provider is open.
Existed ==
    /\ ~closed
    /\ last.op = "Exists"
    /\ last.out = TRUE
    /\ last.err = Nil
    /\ last.faults = {}

\* No backend call of the Get that ended as r failed: it made its calls
\* with no fault, or Secrets.Resolve answered that the backend lacks what
\* the reference names.
Unfailing(r) ==
    \/ r.faults = {}
    \/ /\ r.faults = {Fault("Secrets.Resolve")}
       /\ r.callErr \notin CallErrors

\* What an Exists answers: its result, the kind of its error, and the
\* backend calls that failed.
ExistsAnswers(path) ==
    {[out |-> e.out, kind |-> e.err.Kind, faults |-> e.faults] : e \in ExistsOp(path)}

ListedAll ==
    /\ ~closed
    /\ last.op = "List"
    /\ last.path = Empty
    /\ last.err = Nil
    /\ last.faults = {}

\* The identifiers of the items List writes as path: the items of that
\* title in the vault of that title.
ItemsAt(path) ==
    {items[i].ID : i \in {j \in DOMAIN items :
        \E v \in DOMAIN Vaults :
            /\ items[j].VaultID = Vaults[v].ID
            /\ path = Vaults[v].Title \o <<"/">> \o items[j].Title}}

\* C31: right after a List("") that returned its paths, every returned
\* path is accepted by Exists and by Get: an Exists whose backend calls do
\* not fail returns (true, nil), and a Get whose backend calls do not fail
\* returns an item of that title in that vault.
C31_ListedPathsAddress ==
    ListedAll =>
        \A path \in AllPaths :
            (\E i \in DOMAIN last.out : last.out[i] = path) =>
                /\ \A e \in ExistsOp(path) :
                      e.faults = {} => (e.err = Nil /\ e.out = TRUE)
                /\ \A r \in GetOp(path) :
                      Unfailing(r) => (r.err = Nil /\ r.out.ItemID \in ItemsAt(path))

(***************************************************************************)
(* C32: what a successful Delete removes.                                  *)
(***************************************************************************)
\* its without its i-th element.
Without(its, i) ==
    SubSeq(its, 1, i - 1) \o SubSeq(its, i + 1, Len(its))

\* The item at i is the one the parsed path addresses: an item of the
\* vault of that name or identifier, of that title or identifier.
Addressed(i, parsed) ==
    /\ \E v \in DOMAIN Vaults :
          /\ parsed.Vault \in {Vaults[v].Title, Vaults[v].ID}
          /\ items[i].VaultID = Vaults[v].ID
    /\ parsed.Item \in {items[i].Title, items[i].ID}

\* What a Delete does, the path in its error aside.
DeleteEffects(path) ==
    {[kind |-> r.err.Kind, out |-> r.out, items |-> r.items, cache |-> r.cache]
        : r \in DeleteOp(path)}

\* C32: on an open provider, for every path, a Delete that returns nil
\* leaves the items as they are or removes exactly one item, one the
\* vault and item of the path address, and keeps the others in their
\* order; a Delete of a path that names a field does what the Delete of
\* the item does.
C32_DeleteFrame ==
    ~closed =>
        /\ \A path \in AllPaths : \A r \in DeleteOp(path) :
              r.err = Nil =>
                  \/ r.items = items
                  \/ \E i \in DOMAIN items :
                        /\ r.items = Without(items, i)
                        /\ Addressed(i, Parsed[path, getDefaultVault].p)
        /\ \A path \in {Path_Vapassword, Path_Vauser} :
              DeleteEffects(path) = DeleteEffects(Path_Va)

\* C32, witnessed: the backend held two items, and a Delete of
\* "V/a/password" removed one of them whole and left the other.
C32_Witness ==
    /\ last.op = "Delete"
    /\ last.path = Path_Vapassword
    /\ last.err = Nil
    /\ last.out = "removed"
    /\ nextID = 2
    /\ Len(items) = 1
    /\ Len(items[1].Fields) >= 1

(***************************************************************************)
(* C33: the calls that read.                                               *)
(***************************************************************************)
\* The call that ended as r left the items and the counter of the backend
\* as they were and removed no key of the cache.
Kept(r) ==
    /\ r.items = items
    /\ r.nextID = nextID
    /\ DOMAIN vaultCache \subseteq DOMAIN r.cache

\* C33: in every state every Get, Exists and List, of any path and prefix,
\* successful or not, leaves the items of the backend as they are and
\* removes no key of the cache; and every step of an Exists, of a List and
\* of a GetBatch, from its beginning to its return, does so too.
C33_ReadsKeepBackend ==
    /\ [](/\ \A path \in AllPaths : \A r \in GetOp(path) \cup ExistsOp(path) : Kept(r)
          /\ \A prefix \in Prefixes : \A r \in ListOp(prefix) : Kept(r))
    /\ [][(\/ last'.op \in {"Exists", "List", "GetBatch"}
           \/ batch.op = "GetBatch"
           \/ batch'.op = "GetBatch")
            => /\ items' = items
               /\ nextID' = nextID
               /\ DOMAIN vaultCache \subseteq DOMAIN vaultCache']_vars

\* C33, witnessed: a GetBatch of "V/a" and "X/a" returned the secret of
\* the one item of the backend, and the cache holds the vault it resolved.
C33_Witness ==
    /\ last.op = "GetBatch"
    /\ last.arg = <<Path_Va, Path_Xa>>
    /\ DOMAIN last.out = {Path_Va}
    /\ Len(items) = 1
    /\ <<"V">> \in DOMAIN vaultCache

(***************************************************************************)
(* C34: a path that does not parse.                                        *)
(***************************************************************************)
\* The call of operation on path ended as r: it returned ErrInvalidPath
\* wrapped with the operation and the path as given, made no backend call
\* and left the backend and the cache as they were.
Rejected(r, operation, path) ==
    /\ r.err.Kind = "ErrInvalidPath"
    /\ r.err.Op = operation
    /\ r.err.Path = path
    /\ HasPrefix(r.err.Cause, ErrInvalidPath)
    /\ r.calls = <<>>
    /\ r.faults = {}
    /\ r.items = items
    /\ r.nextID = nextID
    /\ r.cache = vaultCache

\* C34: on an open provider, for every path that ParsePath refuses under
\* the default vault of the configuration, every Get, Set, Delete and
\* Exists of it returns ErrInvalidPath wrapped with the operation and the
\* raw path, makes no backend call and changes neither the backend nor
\* the cache.
C34_ParseFailure ==
    ~closed =>
        \A path \in AllPaths :
            ~ParsePath(path, getDefaultVault).ok =>
                /\ \A r \in GetOp(path) : Rejected(r, "Get", path)
                /\ \A secret \in Secrets :
                      \A r \in SetOp(path, secret) : Rejected(r, "Set", path)
                /\ \A r \in DeleteOp(path) : Rejected(r, "Delete", path)
                /\ \A r \in ExistsOp(path) : Rejected(r, "Exists", path)

\* C34, witnessed: a Set of the single segment "a", with no default
\* vault, was refused with ErrInvalidPath, on a backend that holds an item
\* and a provider that has a vault in its cache.
C34_Witness ==
    /\ ~closed
    /\ last.op = "Set"
    /\ last.path = Path_a
    /\ last.err.Kind = "ErrInvalidPath"
    /\ last.err.Path = Path_a
    /\ items # <<>>
    /\ vaultCache # <<>>

(***************************************************************************)
(* C35: the loops of SetBatch and DeleteBatch.                             *)
(***************************************************************************)
\* The inner calls of the last batch that failed, by their position.
FailedCalls ==
    {i \in DOMAIN last.inner : last.inner[i] # Nil}

\* C35: a SetBatch or DeleteBatch that began on an open provider made one
\* inner call for each of its entries, a DeleteBatch in the order of its
\* slice, whatever the calls before returned; it returns nil exactly when
\* every inner call returned nil, and otherwise the error of the last
\* inner call that failed.
C35_BatchLoops ==
    (last.op \in {"SetBatch", "DeleteBatch"} /\ last.open) =>
        /\ Len(last.inner) = Cardinality(DOMAIN last.arg)
        /\ last.op = "DeleteBatch" =>
              \A i \in FailedCalls :
                  last.inner[i].Op = "Delete" /\ last.inner[i].Path = last.arg[i]
        /\ last.op = "SetBatch" =>
              \A i \in FailedCalls : last.inner[i].Op = "Set"
        /\ (last.err = Nil) <=> (FailedCalls = {})
        /\ FailedCalls # {} => last.err = last.inner[Highest(FailedCalls)]

\* C35, witnessed: both Deletes of a DeleteBatch failed, each with its own
\* error, and the batch returned the error of the second.
C35_Witness ==
    /\ last.op = "DeleteBatch"
    /\ last.open
    /\ FailedCalls = {1, 2}
    /\ last.inner[1] # last.inner[2]
    /\ last.err = last.inner[2]

(***************************************************************************)
(* C36: resolveVaultID of an identifier it returned.                       *)
(***************************************************************************)
\* The names and identifiers a caller may hand to resolveVaultID.
VaultNames ==
    {Vaults[i].Title : i \in DOMAIN Vaults} \cup {Vaults[i].ID : i \in DOMAIN Vaults}
        \cup {VaultX}

\* C36: in every state, whatever the calls before, every name the cache
\* holds maps to an identifier that the cache maps to itself, so that
\* resolveVaultID of it is a cache hit that returns it with no backend
\* call; and a resolveVaultID that returns an identifier from the listing
\* leaves a cache that maps this identifier to itself.
C36_IdempotentOnIDs ==
    /\ \A n \in DOMAIN vaultCache :
          /\ vaultCache[n] \in DOMAIN vaultCache
          /\ \A v \in resolveVaultID(vaultCache[n]) :
                v.err = Empty /\ v.id = vaultCache[n] /\ v.calls = <<>>
    /\ \A n \in VaultNames : \A v \in resolveVaultID(n) :
          v.err = Empty => (v.id \in DOMAIN v.cache /\ v.cache[v.id] = v.id)

(***************************************************************************)
(* C37: String() of a parsed path, parsed again.                           *)
(***************************************************************************)
\* C37: for every default vault D and every path that parses with D to a
\* reference r, the parse of r.String() with the same D yields r again.
C37_CanonicalRoundTrip ==
    (last.op = "ParsePath" /\ last.out.ok) =>
        ParsePath(String(last.out.p), last.arg.defaultVault) = last.out

(***************************************************************************)
(* C38: the cases of secretToFields.                                       *)
(***************************************************************************)
\* C38: secretToFields with a target field name returns one Concealed
\* field of that title whose value is secret.Value; without one and with a
\* map that is not empty it returns one field for each key of the map, of
\* that title, with the value of the key and the type inferFieldType gives
\* them, and no field for secret.Value; with an empty map and a value it
\* returns the one Concealed field "password" with that value; with
\* neither it returns no field.
C38_SecretToFields ==
    last.op = "secretToFields" =>
        LET secret == last.arg.secret
            name   == last.arg.name
            keys   == DOMAIN secret.Fields
            out    == last.out
        IN  /\ name # Empty =>
                  /\ Len(out) = 1
                  /\ out[1].Title = name
                  /\ out[1].Value = secret.Value
                  /\ out[1].FieldType = "Concealed"
            /\ (name = Empty /\ keys # {}) =>
                  /\ Len(out) = Cardinality(keys)
                  /\ \A k \in keys : \E i \in DOMAIN out :
                        /\ out[i].Title = k
                        /\ out[i].Value = secret.Fields[k]
                        /\ out[i].FieldType = inferFieldType(k, secret.Fields[k])
            /\ (name = Empty /\ keys = {} /\ secret.Value # Empty) =>
                  out = <<ItemField(S_password, S_password, secret.Value, "Concealed")>>
            /\ (name = Empty /\ keys = {} /\ secret.Value = Empty) =>
                  out = <<>>

\* C38, witnessed: a record with a value and a map of three fields, one of
\* them with that very value, was converted without a target field name to
\* three fields, of three types.
C38_Witness ==
    /\ last.op = "secretToFields"
    /\ last.arg.name = Empty
    /\ last.arg.secret.Value # Empty
    /\ Cardinality(DOMAIN last.arg.secret.Fields) = 3
    /\ Len(last.out) = 3
    /\ {last.out[i].FieldType : i \in DOMAIN last.out} = {"Text", "Concealed", "Totp"}
    /\ \A i \in DOMAIN last.out : last.out[i].Value = last.arg.secret.Value
                                       => last.out[i].Title = S_user

(***************************************************************************)
(* C40: sanitizeID.                                                        *)
(***************************************************************************)
\* The characters of a field identifier.
IDAlphabet ==
    {"a", "b", "c", "d", "e", "f", "g", "h", "i", "j", "k", "l", "m",
     "n", "o", "p", "q", "r", "s", "t", "u", "v", "w", "x", "y", "z",
     "0", "1", "2", "3", "4", "5", "6", "7", "8", "9", "_"}

\* The name in lower case, its spaces and hyphens turned into underscores,
\* without the characters that are then outside the alphabet.
Cleaned(name) ==
    SelectSeq([i \in DOMAIN name |->
                  IF name[i] \in {" ", "-"} THEN "_" ELSE Lower(name[i])],
              LAMBDA r : r \in IDAlphabet)

\* C40: sanitizeID returns a string that is not empty, over [a-z0-9_],
\* that neither begins nor ends with an underscore: the cleaned name from
\* its first to its last character that is not an underscore, and "field"
\* when it has no such character; sanitizeID of the result is the result.
C40_SanitizeID ==
    last.op = "sanitizeID" =>
        LET out  == last.out
            kept == Cleaned(last.arg.name)
            core == {i \in DOMAIN kept : kept[i] # "_"}
        IN  /\ out # Empty
            /\ \A i \in DOMAIN out : out[i] \in IDAlphabet
            /\ out[1] # "_"
            /\ out[Len(out)] # "_"
            /\ core # {} => out = SubSeq(kept, Lowest(core), Highest(core))
            /\ core = {} => out = <<"f", "i", "e", "l", "d">>
            /\ sanitizeID(out) = out

\* C40, witnessed: the name "__a__b__" was sanitized to "a__b".
C40_Witness ==
    /\ last.op = "sanitizeID"
    /\ last.arg.name = <<"_", "_", "a", "_", "_", "b", "_", "_">>
    /\ last.out = <<"a", "_", "_", "b">>

(***************************************************************************)
(* C39: the accesses to p.vaultCache.                                      *)
(***************************************************************************)
\* C39: a goroutine that reads p.vaultCache holds p.vaultMu, for reading,
\* and no goroutine holds it for writing; a goroutine that writes
\* p.vaultCache is the one holder of p.vaultMu; so while a goroutine
\* writes the map no other goroutine reads or writes it, whoever holds
\* p.mu.
C39_CacheRaceFree ==
    \A t \in DOMAIN goroutine :
        /\ goroutine[t].pc = "lookup" => (t \in vaultMu.r /\ vaultMu.w = {})
        /\ goroutine[t].pc = "vwrite" =>
              /\ vaultMu.w = {t}
              /\ vaultMu.r = {}
              /\ \A u \in DOMAIN goroutine \ {t} :
                    goroutine[u].pc \notin {"lookup", "vwrite"}

\* C39, witnessed: a Get writes the cache while an Exists is about to look
\* into it, and both hold p.mu for reading.
C39_Witness ==
    /\ goroutine[1].cur = "Get" /\ goroutine[1].pc = "vwrite"
    /\ goroutine[2].cur = "Exists" /\ goroutine[2].pc = "vrlock"
    /\ mu.r = {1, 2}
    /\ vaultMu.w = {1}

====
